---- MODULE Spec2Model ----
(***************************************************************************)
(* A model of the mining proxy: the per-connection relay (ProxyConnection), *)
(* the protocol observer (StratumParser), the listener (ProxyServer) and    *)
(* the event correlator (MetricsCollector).                                 *)
(*                                                                           *)
(* Text is a sequence of tokens <<code, n>>: n copies of the byte or         *)
(* character named by code.  Only the filler letter "a" occurs with n > 1.   *)
(* A JSON lexeme such as "id:1" (the text  "id":1 ) is one token: the model  *)
(* never splits a chunk inside a lexeme.                                     *)
(***************************************************************************)
EXTENDS Integers, Sequences, FiniteSets, TLC

VARIABLES now, conn, srv, met

vars == <<now, conn, srv, met>>

----------------------------------------------------------------------------
(* Bounds of the model *)

MaxAttempts == 3
MaxConnections == 2
MaxWindows == 1
HighWaterMark == 2
MaxTime == 1
MaxLines == 1
MaxChunk == 2
ClientFeedLen == 3

----------------------------------------------------------------------------
(* Text: bytes, characters, lexemes *)

Tok(c) == <<c, 1>>

Code(t) == t[1]

IdLexemes == {"id:null", "id:1", "id:2"}
MethodLexemes == {"method:mining.submit", "method:mining.authorize",
                  "method:mining.subscribe", "method:mining.set_difficulty",
                  "method:mining.notify"}
ResultLexemes == {"result:true", "result:false", "result:null", "result:1"}
ErrorLexemes == {"error:null", "error:obj"}
ParamLexemes == {"params:num"}
FieldLexemes == IdLexemes \cup MethodLexemes \cup ResultLexemes
                  \cup ErrorLexemes \cup ParamLexemes

\* characters a JSON string may hold: the letter, U+00E9, U+FFFD
StringChars == {"a", "e9", "fffd"}

RECURSIVE TextLen(_)
TextLen(s) == IF s = <<>> THEN 0 ELSE s[1][2] + TextLen(Tail(s))

RECURSIVE Flatten(_)
Flatten(ss) == IF ss = <<>> THEN <<>> ELSE ss[1] \o Flatten(Tail(ss))

\* string concatenation: adjacent runs of the letter are one run
RECURSIVE Norm(_)
Norm(s) ==
  IF Len(s) < 2 THEN s
  ELSE IF s[1][1] = "a" /\ s[2][1] = "a"
       THEN Norm(<<(<<"a", s[1][2] + s[2][2]>>)>> \o Tail(Tail(s)))
       ELSE <<s[1]>> \o Norm(Tail(s))

Concat(s, t) == Norm(s \o t)

\* chunk.toString('utf-8'): the two-byte sequence C3 A9 is U+00E9; a lead byte
\* without its continuation and a continuation without its lead are U+FFFD each
RECURSIVE Utf8Decode(_)
Utf8Decode(b) ==
  IF b = <<>> THEN <<>>
  ELSE IF Code(b[1]) = "c3"
       THEN IF Len(b) >= 2 /\ Code(b[2]) = "a9"
            THEN <<Tok("e9")>> \o Utf8Decode(Tail(Tail(b)))
            ELSE <<Tok("fffd")>> \o Utf8Decode(Tail(b))
       ELSE IF Code(b[1]) = "a9"
            THEN <<Tok("fffd")>> \o Utf8Decode(Tail(b))
            ELSE <<b[1]>> \o Utf8Decode(Tail(b))

\* String.prototype.split('\n'): at least one piece, the last is the text after
\* the last line feed
RECURSIVE SplitLines(_)
SplitLines(s) ==
  IF \A i \in 1..Len(s) : Code(s[i]) # "lf" THEN <<s>>
  ELSE LET k == CHOOSE i \in 1..Len(s) :
                  Code(s[i]) = "lf" /\ \A j \in 1..(i - 1) : Code(s[j]) # "lf"
       IN <<SubSeq(s, 1, k - 1)>> \o SplitLines(SubSeq(s, k + 1, Len(s)))

RECURSIVE TrimLeft(_)
TrimLeft(s) ==
  IF s # <<>> /\ Code(s[1]) = "cr" THEN TrimLeft(Tail(s)) ELSE s

RECURSIVE TrimRight(_)
TrimRight(s) ==
  IF s # <<>> /\ Code(s[Len(s)]) = "cr"
  THEN TrimRight(SubSeq(s, 1, Len(s) - 1)) ELSE s

Trim(s) == TrimRight(TrimLeft(s))

----------------------------------------------------------------------------
(* JSON.parse on one trimmed line *)

NoMsg == [id |-> "none", method |-> "none", params |-> "none",
          str |-> <<>>, result |-> "none", error |-> "none"]

\* the value of key k in the lexemes fs: the last occurrence wins
RECURSIVE FieldOf(_, _, _)
FieldOf(fs, lex, dflt) ==
  IF fs = <<>> THEN dflt
  ELSE LET c == Code(fs[Len(fs)])
       IN IF c \in lex THEN c
          ELSE FieldOf(SubSeq(fs, 1, Len(fs) - 1), lex, dflt)

Strip(c) == CASE c = "id:null" -> "null"
              [] c = "id:1" -> "1"
              [] c = "id:2" -> "2"
              [] c = "method:mining.submit" -> "mining.submit"
              [] c = "method:mining.authorize" -> "mining.authorize"
              [] c = "method:mining.subscribe" -> "mining.subscribe"
              [] c = "method:mining.set_difficulty" -> "mining.set_difficulty"
              [] c = "method:mining.notify" -> "mining.notify"
              [] c = "result:true" -> "true"
              [] c = "result:false" -> "false"
              [] c = "result:null" -> "null"
              [] c = "result:1" -> "1"
              [] c = "error:null" -> "null"
              [] c = "error:obj" -> "obj"
              [] c = "params:num" -> "num"
              [] OTHER -> "none"

\* the longest prefix of s made of lexemes and white space
RECURSIVE FieldPrefixLen(_)
FieldPrefixLen(s) ==
  IF s # <<>> /\ Code(s[1]) \in FieldLexemes \cup {"cr"}
  THEN 1 + FieldPrefixLen(Tail(s)) ELSE 0

\* [ok, obj, msg]: ok is FALSE when JSON.parse throws; obj tells an object from
\* a scalar.  An object is  { lexemes  string-characters }  with white space
\* allowed around the lexemes; the string characters are params[0].
JsonParse(line) ==
  LET bad == [ok |-> FALSE, obj |-> FALSE, msg |-> NoMsg]
  IN IF line = <<Tok("num")>> THEN [ok |-> TRUE, obj |-> FALSE, msg |-> NoMsg]
     ELSE IF Len(line) < 2 \/ Code(line[1]) # "lb" \/ Code(line[Len(line)]) # "rb"
     THEN bad
     ELSE LET inner == SubSeq(line, 2, Len(line) - 1)
              k == FieldPrefixLen(inner)
              fs == SubSeq(inner, 1, k)
              str == TrimRight(SubSeq(inner, k + 1, Len(inner)))
          IN IF \E i \in 1..Len(str) : Code(str[i]) \notin StringChars
             THEN bad
             ELSE [ok |-> TRUE, obj |-> TRUE,
                   msg |-> [id |-> Strip(FieldOf(fs, IdLexemes, "none")),
                            method |-> Strip(FieldOf(fs, MethodLexemes, "none")),
                            params |-> IF str # <<>> THEN "str"
                                       ELSE Strip(FieldOf(fs, ParamLexemes, "none")),
                            str |-> str,
                            result |-> Strip(FieldOf(fs, ResultLexemes, "none")),
                            error |-> Strip(FieldOf(fs, ErrorLexemes, "none"))]]

----------------------------------------------------------------------------
(* StratumParser *)

BUFFER_LIMIT == 65536

NewParser == [buffer |-> <<>>, nonJsonWarned |-> FALSE]

\* the loop over the complete lines: [warned, msgs, signals]
RECURSIVE ProcessLines(_, _)
ProcessLines(lines, warned) ==
  IF lines = <<>> THEN [warned |-> warned, msgs |-> <<>>, signals |-> 0]
  ELSE LET trimmed == Trim(lines[1])
           parsed == JsonParse(trimmed)
           skip == TextLen(trimmed) = 0
           w == IF skip \/ parsed.ok THEN warned ELSE TRUE
           rest == ProcessLines(Tail(lines), w)
       IN [warned |-> rest.warned,
           msgs |-> (IF ~skip /\ parsed.ok /\ parsed.obj
                     THEN <<parsed.msg>> ELSE <<>>) \o rest.msgs,
           signals |-> (IF ~skip /\ ~parsed.ok /\ ~warned THEN 1 ELSE 0)
                         + rest.signals]

\* the partial line kept whatever its length
Retain_Unbounded(last) == last

\* the retained partial line after the overflow check
Retain(last) == IF TextLen(last) > BUFFER_LIMIT THEN <<>> ELSE last

\* write(chunk): [p, msgs, signals]; msgs are the objects handed to onMessage,
\* in order, signals the non-JSON log lines
\* write that decodes each chunk on its own, carrying no partial line over
ParserWrite_NoCarry(p, chunk) ==
  LET text == Utf8Decode(chunk)
      lines == SplitLines(text)
      done == ProcessLines(SubSeq(lines, 1, Len(lines) - 1), p.nonJsonWarned)
  IN [p |-> [buffer |-> Retain(lines[Len(lines)]),
             nonJsonWarned |-> done.warned],
      msgs |-> done.msgs,
      signals |-> done.signals]

ParserWrite(p, chunk) ==
  LET text == Concat(p.buffer, Utf8Decode(chunk))
      lines == SplitLines(text)
      done == ProcessLines(SubSeq(lines, 1, Len(lines) - 1), p.nonJsonWarned)
  IN [p |-> [buffer |-> Retain(lines[Len(lines)]),
             nonJsonWarned |-> done.warned],
      msgs |-> done.msgs,
      signals |-> done.signals]

----------------------------------------------------------------------------
(* net.Socket, as far as the relay uses it *)

\* st: "connecting", "open" or "destroyed" ("none": no socket).  errPending, closePending: an
\* 'error' or a 'close' event the socket has still to emit.  feed: the bytes the
\* peer sends and the relay has not received yet.  wbuf: the chunks written and
\* not flushed; writes: every chunk ever passed to write(); flushed: the chunks
\* that left for the peer.  timeoutAt: when the socket's inactivity timeout is
\* due (-1: none).  recv: the chunks received from the peer while the relay
\* was not closed and the opposite socket not destroyed.
NewSocket(st, feed, timeoutAt) ==
  [st |-> st, errPending |-> FALSE, closePending |-> FALSE, paused |-> FALSE,
   wbuf |-> <<>>, needDrain |-> FALSE, feed |-> feed,
   writes |-> <<>>, flushed |-> <<>>, timeoutAt |-> timeoutAt, recv |-> <<>>]

Unflushed(s) == TextLen(Flatten(s.wbuf))

\* socket.write(chunk): the chunk is buffered; the call returns false, and a
\* 'drain' is owed, when the buffered bytes reach the high-water mark
SocketWrite(s, chunk) ==
  LET buf == Append(s.wbuf, chunk)
      ok == TextLen(Flatten(buf)) < HighWaterMark
  IN [s |-> [s EXCEPT !.wbuf = buf, !.writes = Append(@, chunk),
                      !.needDrain = @ \/ ~ok],
      ok |-> ok]

SocketDestroy(s) ==
  IF s.st = "destroyed" THEN s
  ELSE [s EXCEPT !.st = "destroyed", !.closePending = TRUE]

----------------------------------------------------------------------------
(* ProxyConnection *)

\* the data of an event; every type carries the same fields, unused ones empty
NoData == [bytes |-> 0, msg |-> NoMsg, source |-> "", code |-> "",
           connect_latency_ms |-> 0,
           duration_ms |-> 0, bytes_sent |-> 0, bytes_received |-> 0]

\* client_id: what labels.client_id reads while the record is emitted, which is
\* what the listeners, all synchronous, see
Event(type, t, id, clientId, data) ==
  [type |-> type, timestamp |-> t, connection_id |-> id,
   client_id |-> clientId, data |-> data]

\* the label client_id of attempt n: "miner-n"
MinerId(n) == <<(<<"miner-", n>>)>>

NoConn ==
  [live |-> FALSE, id |-> 0, closed |-> FALSE, listeners |-> FALSE,
   client_id |-> <<>>, workerName |-> <<>>,
   bytesSent |-> 0, bytesReceived |-> 0,
   startTime |-> 0, lastActivityTime |-> 0,
   timeoutMs |-> 0, idleTimeoutMs |-> 0, idleTimerAt |-> -1,
   parser |-> NewParser, responseParser |-> NewParser,
   client |-> NewSocket("none", <<>>, -1),
   pool |-> NewSocket("none", <<>>, -1),
   closedEvents |-> 0, out |-> <<>>, logged |-> <<>>]

\* emitEvent: the record reaches the listeners the connection has at that time;
\* out collects what one handler emits
EmitEvent(r, type, t, data) ==
  [r EXCEPT !.closedEvents = IF type = "connection_closed" THEN @ + 1 ELSE @,
            !.out = IF r.listeners
                    THEN Append(@, Event(type, t, r.id, r.client_id, data))
                    ELSE @]

StartIdleTimer(r, t) == [r EXCEPT !.idleTimerAt = t + r.idleTimeoutMs]

\* resetIdleTimer that records the activity and leaves the running timer alone
ResetIdleTimer_KeepTimer(r, t) == [r EXCEPT !.lastActivityTime = t]

ResetIdleTimer(r, t) ==
  LET r1 == [r EXCEPT !.lastActivityTime = t, !.idleTimerAt = -1]
  IN IF ~r1.closed THEN StartIdleTimer(r1, t) ELSE r1

\* close() that leaves the relay's listeners in place
Close_KeepListeners(r, t) ==
  IF r.closed THEN r
  ELSE LET r1 == [r EXCEPT !.closed = TRUE, !.idleTimerAt = -1,
                           !.client = SocketDestroy(@),
                           !.pool = SocketDestroy(@)]
       IN EmitEvent(r1, "connection_closed", t,
                    [NoData EXCEPT !.duration_ms = t - r.startTime,
                                   !.bytes_sent = r.bytesSent,
                                   !.bytes_received = r.bytesReceived])

\* close() without its closed guard
Close_NoGuard(r, t) ==
  LET r1 == [r EXCEPT !.closed = TRUE, !.idleTimerAt = -1,
                      !.client = SocketDestroy(@),
                      !.pool = SocketDestroy(@)]
      r2 == EmitEvent(r1, "connection_closed", t,
                      [NoData EXCEPT !.duration_ms = t - r.startTime,
                                     !.bytes_sent = r.bytesSent,
                                     !.bytes_received = r.bytesReceived])
  IN [r2 EXCEPT !.listeners = FALSE]

\* close()
Close(r, t) ==
  IF r.closed THEN r
  ELSE LET r1 == [r EXCEPT !.closed = TRUE, !.idleTimerAt = -1,
                           !.client = SocketDestroy(@),
                           !.pool = SocketDestroy(@)]
           r2 == EmitEvent(r1, "connection_closed", t,
                          [NoData EXCEPT !.duration_ms = t - r.startTime,
                                         !.bytes_sent = r.bytesSent,
                                         !.bytes_received = r.bytesReceived])
       IN [r2 EXCEPT !.listeners = FALSE]

\* new ProxyConnection(clientSocket, options, logger); the socket options of
\* createConnection arm the pool socket's timeout
NewConnection(n, t, clientFeed, poolFeed, timeoutMs, idleTimeoutMs) ==
  StartIdleTimer(
    [NoConn EXCEPT !.live = TRUE, !.id = n, !.listeners = TRUE,
                   !.client_id = MinerId(n),
                   !.startTime = t, !.lastActivityTime = t,
                   !.timeoutMs = timeoutMs, !.idleTimeoutMs = idleTimeoutMs,
                   !.client = NewSocket("open", clientFeed, -1),
                   !.pool = NewSocket("connecting", poolFeed, t + timeoutMs)],
    t)

\* handleClientMessage
HandleClientMessage(r, m, t) ==
  LET name == IF m.params = "str" THEN m.str ELSE <<Tok("num")>>
      bind == /\ m.method = "mining.authorize"
              /\ m.params # "none"
              /\ r.workerName = <<>>
      r1 == IF bind THEN [r EXCEPT !.workerName = name, !.client_id = name]
            ELSE r
  IN EmitEvent(r1, "stratum_request", t, [NoData EXCEPT !.msg = m])

\* handlePoolMessage that takes every upstream message for a response
HandlePoolMessage_AllResponses(r, m, t) ==
  EmitEvent(r, "stratum_response", t, [NoData EXCEPT !.msg = m])

\* handlePoolMessage
HandlePoolMessage(r, m, t) ==
  IF m.method # "none"
  THEN EmitEvent(r, "stratum_notification", t, [NoData EXCEPT !.msg = m])
  ELSE EmitEvent(r, "stratum_response", t, [NoData EXCEPT !.msg = m])

RECURSIVE HandleClientMessages(_, _, _)
HandleClientMessages(r, ms, t) ==
  IF ms = <<>> THEN r
  ELSE HandleClientMessages(HandleClientMessage(r, ms[1], t), Tail(ms), t)

RECURSIVE HandlePoolMessages(_, _, _)
HandlePoolMessages(r, ms, t) ==
  IF ms = <<>> THEN r
  ELSE HandlePoolMessages(HandlePoolMessage(r, ms[1], t), Tail(ms), t)

\* forwarding that drops the chunk a full buffer would not take
ForwardToPool_DropWhenFull(r, chunk, t) ==
  IF r.pool.st # "destroyed"
  THEN IF Unflushed(r.pool) + TextLen(chunk) >= HighWaterMark
       THEN [r EXCEPT !.client.paused = TRUE, !.pool.needDrain = TRUE]
       ELSE [r EXCEPT !.pool = [SocketWrite(r.pool, chunk).s EXCEPT
                                  !.timeoutAt = t + r.timeoutMs]]
  ELSE r

\* forwarding that ignores the result of write()
ForwardToPool_NoPause(r, chunk, t) ==
  IF r.pool.st # "destroyed"
  THEN [r EXCEPT !.pool = [SocketWrite(r.pool, chunk).s EXCEPT
                             !.timeoutAt = t + r.timeoutMs]]
  ELSE r

\* the forwarding step of the client 'data' handler
ForwardToPool(r, chunk, t) ==
  IF r.pool.st # "destroyed"
  THEN LET w == SocketWrite(r.pool, chunk)
       IN [r EXCEPT !.pool = [w.s EXCEPT !.timeoutAt = t + r.timeoutMs],
                    !.client.paused = IF ~w.ok THEN TRUE ELSE @]
  ELSE r

\* the forwarding step of the pool 'data' handler
ForwardToClient(r, chunk) ==
  IF r.client.st # "destroyed"
  THEN LET w == SocketWrite(r.client, chunk)
       IN [r EXCEPT !.client = w.s,
                    !.pool.paused = IF ~w.ok /\ r.pool.st # "destroyed"
                                    THEN TRUE ELSE @]
  ELSE r

\* the client 'data' handler forwarding only what the observer took for JSON
OnClientData_ObservedOnly(r, chunk, t) ==
  IF r.closed THEN r
  ELSE LET r1 == ResetIdleTimer(r, t)
           r2 == [r1 EXCEPT !.bytesSent = @ + TextLen(chunk)]
           r3 == EmitEvent(r2, "bytes_sent", t,
                          [NoData EXCEPT !.bytes = TextLen(chunk)])
           w == ParserWrite(r3.parser, chunk)
           r4 == HandleClientMessages([r3 EXCEPT !.parser = w.p], w.msgs, t)
       IN IF w.signals > 0 THEN r4 ELSE ForwardToPool(r4, chunk, t)

\* the client 'data' handler reporting the bytes after the messages
OnClientData_BytesLast(r, chunk, t) ==
  IF r.closed THEN r
  ELSE LET r1 == ResetIdleTimer(r, t)
           r2 == [r1 EXCEPT !.bytesSent = @ + TextLen(chunk)]
           w == ParserWrite(r2.parser, chunk)
           r3 == HandleClientMessages([r2 EXCEPT !.parser = w.p], w.msgs, t)
           r4 == EmitEvent(r3, "bytes_sent", t,
                          [NoData EXCEPT !.bytes = TextLen(chunk)])
       IN ForwardToPool(r4, chunk, t)

\* a client 'data' handler without the closed guard
OnClientData_NoGuard(r, chunk, t) ==
  LET r1 == ResetIdleTimer(r, t)
      r2 == [r1 EXCEPT !.bytesSent = @ + TextLen(chunk)]
      r3 == EmitEvent(r2, "bytes_sent", t,
                     [NoData EXCEPT !.bytes = TextLen(chunk)])
      w == ParserWrite(r3.parser, chunk)
      r4 == HandleClientMessages([r3 EXCEPT !.parser = w.p], w.msgs, t)
  IN ForwardToPool(r4, chunk, t)

\* clientSocket.on('data')
OnClientData(r, chunk, t) ==
  IF r.closed THEN r
  ELSE LET r1 == ResetIdleTimer(r, t)
           r2 == [r1 EXCEPT !.bytesSent = @ + TextLen(chunk)]
           r3 == EmitEvent(r2, "bytes_sent", t,
                          [NoData EXCEPT !.bytes = TextLen(chunk)])
           w == ParserWrite(r3.parser, chunk)
           r4 == HandleClientMessages([r3 EXCEPT !.parser = w.p], w.msgs, t)
       IN ForwardToPool(r4, chunk, t)

\* a pool 'data' handler that emits the bytes event and leaves the counter
OnPoolData_Uncounted(r, chunk, t) ==
  IF r.closed THEN r
  ELSE LET r1 == ResetIdleTimer(r, t)
           r3 == EmitEvent(r1, "bytes_received", t,
                          [NoData EXCEPT !.bytes = TextLen(chunk)])
           w == ParserWrite(r3.responseParser, chunk)
           r4 == HandlePoolMessages([r3 EXCEPT !.responseParser = w.p], w.msgs, t)
       IN ForwardToClient(r4, chunk)

\* poolSocket.on('data')
OnPoolData(r, chunk, t) ==
  IF r.closed THEN r
  ELSE LET r1 == ResetIdleTimer(r, t)
           r2 == [r1 EXCEPT !.bytesReceived = @ + TextLen(chunk)]
           r3 == EmitEvent(r2, "bytes_received", t,
                          [NoData EXCEPT !.bytes = TextLen(chunk)])
           w == ParserWrite(r3.responseParser, chunk)
           r4 == HandlePoolMessages([r3 EXCEPT !.responseParser = w.p], w.msgs, t)
       IN ForwardToClient(r4, chunk)

\* a client 'drain' handler that resumes nothing
OnClientDrain_Ignore(r) == r

\* clientSocket.on('drain')
OnClientDrain(r) ==
  IF r.pool.st # "destroyed" /\ r.pool.paused
  THEN [r EXCEPT !.pool.paused = FALSE] ELSE r

\* a pool 'drain' handler that resumes the pool socket itself
OnPoolDrain_OwnSide(r) ==
  IF r.pool.st # "destroyed" /\ r.pool.paused
  THEN [r EXCEPT !.pool.paused = FALSE] ELSE r

\* poolSocket.on('drain')
OnPoolDrain(r) ==
  IF r.client.st # "destroyed" /\ r.client.paused
  THEN [r EXCEPT !.client.paused = FALSE] ELSE r

\* the codes of the errors that are logged below the error level
EXPECTED_ERROR_CODES ==
  {"ECONNRESET", "ETIMEDOUT", "EPIPE", "ECONNREFUSED", "EHOSTUNREACH"}

\* the codes a socket error may carry: the five above, one other code, and ""
\* for an error without a code
AllErrorCodes == EXPECTED_ERROR_CODES \cup {"EACCES", ""}

\* one code of each class
ErrorCodes == {"ECONNRESET", "EACCES"}

IsExpected(code) == code # "" /\ code \in EXPECTED_ERROR_CODES

\* clientSocket.on('error'); logged collects the levels of the entries an
\* 'error' handler writes to the logger
OnClientError(r, code, t) ==
  Close([r EXCEPT !.logged =
           Append(@, IF IsExpected(code) THEN "debug" ELSE "error")], t)

\* clientSocket.on('close')

OnClientClose(r, t) == Close(r, t)

\* poolSocket.on('connect')
OnPoolConnect(r, t) ==
  EmitEvent(r, "connection_opened", t,
            [NoData EXCEPT !.connect_latency_ms = t - r.startTime])

\* a pool 'error' handler that reports no error event for an expected code
OnPoolError_QuietExpected(r, code, t) ==
  LET r1 == [r EXCEPT !.logged =
                        Append(@, IF IsExpected(code) THEN "info" ELSE "error")]
  IN IF IsExpected(code) THEN Close(r1, t)
     ELSE Close(EmitEvent(r1, "error", t,
                          [NoData EXCEPT !.source = "pool", !.code = code]), t)

\* poolSocket.on('error')
OnPoolError(r, code, t) ==
  LET r1 == [r EXCEPT !.logged =
                        Append(@, IF IsExpected(code) THEN "info" ELSE "error")]
  IN Close(EmitEvent(r1, "error", t,
                     [NoData EXCEPT !.source = "pool", !.code = code]), t)

\* poolSocket.on('timeout'), on('close')

OnPoolTimeout(r, t) == Close(r, t)

OnPoolClose(r, t) == Close(r, t)

\* the idle timer's callback
OnIdleTimeout(r, t) == Close(r, t)

----------------------------------------------------------------------------
(* MetricsCollector *)

EmptyMap == [k \in {} |-> 0]

Inc(f, k, d) ==
  IF k \in DOMAIN f THEN [f EXCEPT ![k] = @ + d] ELSE (k :> d) @@ f

Put(f, k, v) ==
  IF k \in DOMAIN f THEN [f EXCEPT ![k] = v] ELSE (k :> v) @@ f

Remove(f, k) == [x \in DOMAIN f \ {k} |-> f[x]]

\* Counters and gauges are maps from the label client_id (the only label that
\* varies: there is one upstream host); histograms count their observations,
\* as a map from observation to its number of occurrences.  Times stay in milliseconds (the code divides by 1000).
NewMetrics ==
  [activeConnections |-> EmptyMap, connectionsTotal |-> EmptyMap,
   connectionErrors |-> EmptyMap, connectionDuration |-> EmptyMap,
   bytesSent |-> EmptyMap, bytesReceived |-> EmptyMap,
   submitsTotal |-> EmptyMap, acceptedShares |-> EmptyMap,
   rejectedShares |-> EmptyMap, notificationsTotal |-> EmptyMap,
   currentDifficulty |-> EmptyMap, connectLatency |-> EmptyMap,
   requestResponseLatency |-> EmptyMap, pendingRequests |-> EmptyMap]

Obs(labels, v) == [labels |-> labels, value |-> v]

\* the key `${event.connection_id}-${msg.id}`
PendingKey(e) == <<e.connection_id, e.data.msg.id>>

\* handleStratumRequest recording every request that carries an identifier
HandleStratumRequest_AnyMethod(m, e) ==
  LET msg == e.data.msg
      labels == e.client_id
      m1 == IF msg.method = "mining.submit"
            THEN [m EXCEPT !.submitsTotal = Inc(@, labels, 1)] ELSE m
  IN IF msg.id # "null"
     THEN [m1 EXCEPT !.pendingRequests = Put(@, PendingKey(e), e.timestamp)]
     ELSE m1

\* handleStratumRequest
HandleStratumRequest(m, e) ==
  LET msg == e.data.msg
      labels == e.client_id
  IN IF msg.method = "mining.submit"
     THEN LET m1 == [m EXCEPT !.submitsTotal = Inc(@, labels, 1)]
          IN IF msg.id # "null"
             THEN [m1 EXCEPT !.pendingRequests = Put(@, PendingKey(e), e.timestamp)]
             ELSE m1
     ELSE m

\* handleStratumResponse counting a rejection whenever the error key is there
HandleStratumResponse_ErrorKey(m, e) ==
  LET msg == e.data.msg
      labels == e.client_id
      key == PendingKey(e)
  IN IF msg.id # "none" /\ msg.id # "null"
     THEN LET m1 == IF key \in DOMAIN m.pendingRequests
                    THEN [m EXCEPT
                            !.requestResponseLatency =
                               Inc(@, Obs(labels, e.timestamp - m.pendingRequests[key]), 1),
                            !.pendingRequests = Remove(@, key)]
                    ELSE m
              m2 == IF msg.result \in {"true", "null"}
                    THEN [m1 EXCEPT !.acceptedShares = Inc(@, labels, 1)]
                    ELSE m1
          IN IF msg.error # "none"
             THEN [m2 EXCEPT !.rejectedShares = Inc(@, labels, 1)]
             ELSE m2
     ELSE m

\* handleStratumResponse that leaves the matched entry in place
HandleStratumResponse_KeepEntry(m, e) ==
  LET msg == e.data.msg
      labels == e.client_id
      key == PendingKey(e)
  IN IF msg.id # "none" /\ msg.id # "null"
     THEN LET m1 == IF key \in DOMAIN m.pendingRequests
                    THEN [m EXCEPT
                            !.requestResponseLatency =
                               Inc(@, Obs(labels, e.timestamp - m.pendingRequests[key]), 1)]
                    ELSE m
              m2 == IF msg.result \in {"true", "null"}
                    THEN [m1 EXCEPT !.acceptedShares = Inc(@, labels, 1)]
                    ELSE m1
          IN IF msg.error \notin {"none", "null"}
             THEN [m2 EXCEPT !.rejectedShares = Inc(@, labels, 1)]
             ELSE m2
     ELSE m

\* handleStratumResponse
HandleStratumResponse(m, e) ==
  LET msg == e.data.msg
      labels == e.client_id
      key == PendingKey(e)
  IN IF msg.id # "none" /\ msg.id # "null"
     THEN LET m1 == IF key \in DOMAIN m.pendingRequests
                    THEN [m EXCEPT
                            !.requestResponseLatency =
                               Inc(@, Obs(labels, e.timestamp - m.pendingRequests[key]), 1),
                            !.pendingRequests = Remove(@, key)]
                    ELSE m
              m2 == IF msg.result \in {"true", "null"}
                    THEN [m1 EXCEPT !.acceptedShares = Inc(@, labels, 1)]
                    ELSE m1
          IN IF msg.error \notin {"none", "null"}
             THEN [m2 EXCEPT !.rejectedShares = Inc(@, labels, 1)]
             ELSE m2
     ELSE m

\* handleStratumNotification
HandleStratumNotification(m, e) ==
  LET msg == e.data.msg
      labels == e.client_id
  IN IF msg.method # "none"
     THEN LET m1 == [m EXCEPT !.notificationsTotal = Inc(@, <<labels, msg.method>>, 1)]
          IN IF msg.method = "mining.set_difficulty" /\ msg.params # "none"
             THEN [m1 EXCEPT !.currentDifficulty = Put(@, labels, msg.params)]
             ELSE m1
     ELSE m

\* handleEvent
HandleEvent(m, e) ==
  LET labels == e.client_id
  IN CASE e.type = "connection_opened" ->
            [m EXCEPT !.activeConnections = Inc(@, labels, 1),
                      !.connectionsTotal = Inc(@, labels, 1),
                      !.connectLatency = Inc(@, Obs(<<>>, e.data.connect_latency_ms), 1)]
       [] e.type = "connection_closed" ->
            [m EXCEPT !.activeConnections = Inc(@, labels, -1),
                      !.connectionDuration = Inc(@, Obs(labels, e.data.duration_ms), 1)]
       [] e.type = "bytes_sent" ->
            [m EXCEPT !.bytesSent = Inc(@, labels, e.data.bytes)]
       [] e.type = "bytes_received" ->
            [m EXCEPT !.bytesReceived = Inc(@, labels, e.data.bytes)]
       [] e.type = "stratum_request" -> HandleStratumRequest(m, e)
       [] e.type = "stratum_response" -> HandleStratumResponse(m, e)
       [] e.type = "stratum_notification" -> HandleStratumNotification(m, e)
       [] e.type = "error" ->
            [m EXCEPT !.connectionErrors = Inc(@, <<labels, e.data.source>>, 1)]
       [] OTHER -> m

RECURSIVE HandleEvents(_, _)
HandleEvents(m, es) ==
  IF es = <<>> THEN m ELSE HandleEvents(HandleEvent(m, es[1]), Tail(es))

----------------------------------------------------------------------------
(* ProxyServer *)

CONNECTION_THROTTLE_MS == 5000
MAX_CONNECTIONS_PER_WINDOW == 1

Addrs == {"10.0.0.1", "10.0.0.2"}

\* connections: the keys of the map (the attempt numbers n of "miner-n");
\* maxConnections 0: no ceiling configured.  attempts: the connection attempts
\* so far.  events: what the server has emitted on its own 'event' stream, kept
\* by an observer that listens when trace is set; emitted counts them always.
\* resolved: the promise of stop() has resolved.  log: the levels of the
\* entries the 'error' handlers of the relays logged, kept when trace is set.
NewServer(maxConnections, trace) ==
  [listening |-> TRUE, connections |-> {}, clientCounter |-> 0,
   recentConnections |-> [a \in Addrs |-> <<>>],
   maxConnections |-> maxConnections,
   trace |-> trace, events |-> <<>>, emitted |-> 0, attempts |-> <<>>,
   resolved |-> FALSE, log |-> <<>>]

\* the window test with its bound included
RECURSIVE Filter_Inclusive(_, _, _)
Filter_Inclusive(ts, t, window) ==
  IF ts = <<>> THEN <<>>
  ELSE (IF t - ts[1] <= window THEN <<ts[1]>> ELSE <<>>)
         \o Filter_Inclusive(Tail(ts), t, window)

RECURSIVE Filter(_, _, _)
Filter(ts, t, window) ==
  IF ts = <<>> THEN <<>>
  ELSE (IF t - ts[1] < window THEN <<ts[1]>> ELSE <<>>)
         \o Filter(Tail(ts), t, window)

\* isThrottled(ip): [recent, throttled]
IsThrottled(recent, ip, t) ==
  LET valid == Filter(recent[ip], t, CONNECTION_THROTTLE_MS)
  IN [recent |-> [recent EXCEPT ![ip] = valid],
      throttled |-> Len(valid) >= MAX_CONNECTIONS_PER_WINDOW]

\* trackConnection that records the attempt for every address
TrackConnection_AllAddrs(recent, ip, t) == [a \in Addrs |-> Append(recent[a], t)]

\* trackConnection(ip)
TrackConnection(recent, ip, t) == [recent EXCEPT ![ip] = Append(@, t)]

\* an 'event' listener that forgets every relay when one closes
ServerOnEvent_ForgetAll(sv, n, e) ==
  [sv EXCEPT !.events = IF sv.trace THEN Append(@, e) ELSE @,
             !.emitted = @ + 1,
             !.connections = IF e.type = "connection_closed" THEN {} ELSE @]

\* the listener handleConnection attaches to a connection's 'event'
ServerOnEvent(sv, n, e) ==
  [sv EXCEPT !.events = IF sv.trace THEN Append(@, e) ELSE @,
             !.emitted = @ + 1,
             !.connections = IF e.type = "connection_closed" THEN @ \ {n} ELSE @]

RECURSIVE ServerOnEvents(_, _, _)
ServerOnEvents(sv, n, es) ==
  IF es = <<>> THEN sv
  ELSE ServerOnEvents(ServerOnEvent(sv, n, es[1]), n, Tail(es))

Attempt(ip, t, outcome, n, tracked) ==
  [ip |-> ip, t |-> t, outcome |-> outcome, n |-> n, tracked |-> tracked]

\* the ceiling check with the comparison off by one
AtCapacity_OffByOne(sv) ==
  sv.maxConnections # 0 /\ Cardinality(sv.connections) > sv.maxConnections

\* options.maxConnections && connections.size >= options.maxConnections
AtCapacity(sv) ==
  sv.maxConnections # 0 /\ Cardinality(sv.connections) >= sv.maxConnections

\* the socket of attempt n after socket.destroy(): no ProxyConnection owns it
Rejected(n) == [NoConn EXCEPT !.id = n, !.client = SocketDestroy(NewSocket("open", <<>>, -1))]

\* handleConnection that logs a rejection and goes on to build the relay
HandleConnection_NoReturn(sv, cn, ip, t, clientFeed, poolFeed, timeoutMs, idleTimeoutMs) ==
  LET n == sv.clientCounter + 1
      th == IsThrottled(sv.recentConnections, ip, t)
      outcome == IF th.throttled THEN "throttled"
                 ELSE IF AtCapacity(sv) THEN "full" ELSE "admitted"
  IN [srv |-> [sv EXCEPT
                 !.clientCounter = n,
                 !.recentConnections = TrackConnection(th.recent, ip, t),
                 !.connections = @ \cup {n},
                 !.attempts = Append(@, Attempt(ip, t, outcome, n,
                                                Cardinality(sv.connections)))],
      conn |-> [cn EXCEPT ![n] =
                  NewConnection(n, t, clientFeed, poolFeed, timeoutMs, idleTimeoutMs)]]

\* handleConnection(socket): [srv, conn]
HandleConnection(sv, cn, ip, t, clientFeed, poolFeed, timeoutMs, idleTimeoutMs) ==
  LET n == sv.clientCounter + 1
      th == IsThrottled(sv.recentConnections, ip, t)
      sv1 == [sv EXCEPT !.clientCounter = n, !.recentConnections = th.recent]
      tracked == Cardinality(sv.connections)
  IN IF th.throttled
     THEN [srv |-> [sv1 EXCEPT !.attempts =
                      Append(@, Attempt(ip, t, "throttled", n, tracked))],
           conn |-> [cn EXCEPT ![n] = Rejected(n)]]
     ELSE IF AtCapacity(sv)
     THEN [srv |-> [sv1 EXCEPT !.attempts =
                      Append(@, Attempt(ip, t, "full", n, tracked))],
           conn |-> [cn EXCEPT ![n] = Rejected(n)]]
     ELSE [srv |-> [sv1 EXCEPT
                      !.recentConnections = TrackConnection(@, ip, t),
                      !.connections = @ \cup {n},
                      !.attempts = Append(@, Attempt(ip, t, "admitted", n, tracked))],
           conn |-> [cn EXCEPT ![n] =
                       NewConnection(n, t, clientFeed, poolFeed,
                                     timeoutMs, idleTimeoutMs)]]

\* stop(): the tracked connections lose their listeners, the map is cleared,
\* the listening socket is closed
StopServer(sv) == [sv EXCEPT !.listening = FALSE, !.connections = {}]

\* stop() that also closes every tracked connection
StopConns_CloseAll(sv, cn) ==
  [c \in DOMAIN cn |->
     IF c \in sv.connections
     THEN [Close([cn[c] EXCEPT !.listeners = FALSE], cn[c].startTime)
             EXCEPT !.out = <<>>]
     ELSE cn[c]]

StopConns(sv, cn) ==
  [c \in DOMAIN cn |->
     IF c \in sv.connections THEN [cn[c] EXCEPT !.listeners = FALSE] ELSE cn[c]]

----------------------------------------------------------------------------
(* The event loop: one action per callback *)

Conns == 1..MaxAttempts

\* the options the server hands to every connection (connectionTimeoutMs,
\* idleTimeoutMs), in clock units
Options == [timeoutMs |-> 1, idleTimeoutMs |-> 1]

\* the options of the service: connection_timeout_ms of the configuration's
\* defaults, and the relay's own default idle time
ServiceOptions == [timeoutMs |-> 30000, idleTimeoutMs |-> 1800000]

\* A handler of connection c has run and left r: what it emitted goes through
\* the server's listener to the collector, synchronously.
Deliver(c, r) ==
  /\ conn' = [conn EXCEPT ![c] = [r EXCEPT !.out = <<>>, !.logged = <<>>]]
  /\ srv' = [ServerOnEvents(srv, c, r.out) EXCEPT
              !.log = IF srv.trace THEN @ \o r.logged ELSE @]
  /\ met' = HandleEvents(met, r.out)
  /\ UNCHANGED now

\* a step of a socket that runs no handler of the relay
Quiet(c, r) ==
  /\ conn' = [conn EXCEPT ![c] = r]
  /\ UNCHANGED <<now, srv, met>>

\* the downstream peer's next k tokens arrive as one chunk
ClientData(c, k) ==
  /\ conn[c].live /\ conn[c].client.st = "open" /\ ~conn[c].client.paused
  /\ k \in 1..Len(conn[c].client.feed)
  /\ LET f == conn[c].client.feed
         ok == ~conn[c].closed /\ conn[c].pool.st # "destroyed"
         r == [conn[c] EXCEPT !.client.feed = SubSeq(f, k + 1, Len(f)),
                              !.client.recv = IF ok THEN Append(@, SubSeq(f, 1, k))
                                              ELSE @]
     IN Deliver(c, OnClientData(r, SubSeq(f, 1, k), now))

\* the upstream peer's next k tokens arrive as one chunk
PoolData(c, k) ==
  /\ conn[c].live /\ conn[c].pool.st = "open" /\ ~conn[c].pool.paused
  /\ k \in 1..Len(conn[c].pool.feed)
  /\ LET f == conn[c].pool.feed
         ok == ~conn[c].closed /\ conn[c].client.st # "destroyed"
         r == [conn[c] EXCEPT !.pool.feed = SubSeq(f, k + 1, Len(f)),
                              !.pool.recv = IF ok THEN Append(@, SubSeq(f, 1, k))
                                            ELSE @,
                              !.pool.timeoutAt = now + conn[c].timeoutMs]
     IN Deliver(c, OnPoolData(r, SubSeq(f, 1, k), now))

\* the upstream dial succeeds
PoolConnect(c) ==
  /\ conn[c].live /\ conn[c].pool.st = "connecting"
  /\ LET r == [conn[c] EXCEPT !.pool.st = "open",
                              !.pool.timeoutAt = now + conn[c].timeoutMs]
     IN Deliver(c, OnPoolConnect(r, now))

\* the oldest unflushed chunk of a socket leaves for its peer
ClientFlush(c) ==
  /\ conn[c].live /\ conn[c].client.st = "open" /\ conn[c].client.wbuf # <<>>
  /\ Quiet(c, [conn[c] EXCEPT !.client.flushed = Append(@, conn[c].client.wbuf[1]),
                              !.client.wbuf = Tail(@)])

PoolFlush(c) ==
  /\ conn[c].live /\ conn[c].pool.st = "open" /\ conn[c].pool.wbuf # <<>>
  /\ Quiet(c, [conn[c] EXCEPT !.pool.flushed = Append(@, conn[c].pool.wbuf[1]),
                              !.pool.wbuf = Tail(@),
                              !.pool.timeoutAt = now + conn[c].timeoutMs])

\* a socket whose buffer had filled has flushed everything: 'drain'
ClientDrain(c) ==
  /\ conn[c].live /\ conn[c].client.st = "open"
  /\ conn[c].client.wbuf = <<>> /\ conn[c].client.needDrain
  /\ Deliver(c, OnClientDrain([conn[c] EXCEPT !.client.needDrain = FALSE]))

PoolDrain(c) ==
  /\ conn[c].live /\ conn[c].pool.st = "open"
  /\ conn[c].pool.wbuf = <<>> /\ conn[c].pool.needDrain
  /\ Deliver(c, OnPoolDrain([conn[c] EXCEPT !.pool.needDrain = FALSE]))

\* a transport fails: the socket is destroyed and owes 'error' and 'close'
ClientFail(c) ==
  /\ conn[c].live /\ conn[c].client.st = "open"
  /\ Quiet(c, [conn[c] EXCEPT !.client.st = "destroyed",
                              !.client.errPending = TRUE,
                              !.client.closePending = TRUE])

PoolFail(c) ==
  /\ conn[c].live /\ conn[c].pool.st \in {"connecting", "open"}
  /\ Quiet(c, [conn[c] EXCEPT !.pool.st = "destroyed",
                              !.pool.errPending = TRUE,
                              !.pool.closePending = TRUE])

\* a peer ends its stream: the socket is destroyed and owes 'close'
ClientEnd(c) ==
  /\ conn[c].live /\ conn[c].client.st = "open"
  /\ Quiet(c, [conn[c] EXCEPT !.client = SocketDestroy(@)])

PoolEnd(c) ==
  /\ conn[c].live /\ conn[c].pool.st = "open"
  /\ Quiet(c, [conn[c] EXCEPT !.pool = SocketDestroy(@)])

\* the owed 'error' and 'close' events; 'error' comes first
ClientErrorWith(c, code) ==
  /\ conn[c].live /\ conn[c].client.errPending
  /\ Deliver(c, OnClientError([conn[c] EXCEPT !.client.errPending = FALSE],
                              code, now))

ClientErrorEvent(c) == \E code \in ErrorCodes : ClientErrorWith(c, code)

ClientCloseEvent(c) ==
  /\ conn[c].live /\ conn[c].client.closePending /\ ~conn[c].client.errPending
  /\ Deliver(c, OnClientClose([conn[c] EXCEPT !.client.closePending = FALSE], now))

PoolErrorWith(c, code) ==
  /\ conn[c].live /\ conn[c].pool.errPending
  /\ Deliver(c, OnPoolError([conn[c] EXCEPT !.pool.errPending = FALSE],
                            code, now))

PoolErrorEvent(c) == \E code \in ErrorCodes : PoolErrorWith(c, code)

PoolCloseEvent(c) ==
  /\ conn[c].live /\ conn[c].pool.closePending /\ ~conn[c].pool.errPending
  /\ Deliver(c, OnPoolClose([conn[c] EXCEPT !.pool.closePending = FALSE], now))

\* the pool socket's inactivity timeout
PoolTimeout(c) ==
  /\ conn[c].live /\ conn[c].pool.st \in {"connecting", "open"}
  /\ now >= conn[c].pool.timeoutAt
  /\ Deliver(c, OnPoolTimeout([conn[c] EXCEPT
                                 !.pool.timeoutAt = now + conn[c].timeoutMs], now))

\* the idle timer
IdleTimeout(c) ==
  /\ conn[c].live /\ conn[c].idleTimerAt >= 0 /\ now >= conn[c].idleTimerAt
  /\ Deliver(c, OnIdleTimeout([conn[c] EXCEPT !.idleTimerAt = -1], now))

\* a connection attempt from address ip
Accept(ip, clientFeed, poolFeed) ==
  /\ srv.listening /\ srv.clientCounter < MaxAttempts
  /\ LET h == HandleConnection(srv, conn, ip, now, clientFeed, poolFeed,
                               ServiceOptions.timeoutMs,
                               ServiceOptions.idleTimeoutMs)
     IN srv' = h.srv /\ conn' = h.conn
  /\ UNCHANGED <<now, met>>

\* stop()
Stop ==
  /\ srv.listening
  /\ srv' = StopServer(srv)
  /\ conn' = StopConns(srv, conn)
  /\ UNCHANGED <<now, met>>

\* the listening socket, closed by stop(), has no connection left: net.Server
\* emits 'close' and runs the callback of close(), which resolves the promise
ServerClosed ==
  /\ ~srv.listening /\ ~srv.resolved
  /\ \A c \in Conns :
       conn[c].live => conn[c].client.st # "open" /\ ~conn[c].client.closePending
  /\ srv' = [srv EXCEPT !.resolved = TRUE]
  /\ UNCHANGED <<now, conn, met>>

\* time passes
Tick(d, limit) ==
  /\ now + d <= limit
  /\ now' = now + d
  /\ UNCHANGED <<conn, srv, met>>

\* the callbacks of one connection
RelayStep(c) ==
  \/ \E k \in 1..MaxChunk : ClientData(c, k)
  \/ \E k \in 1..MaxChunk : PoolData(c, k)
  \/ PoolConnect(c)
  \/ ClientFlush(c)
  \/ PoolFlush(c)
  \/ ClientDrain(c)
  \/ PoolDrain(c)
  \/ ClientFail(c)
  \/ PoolFail(c)
  \/ ClientEnd(c)
  \/ PoolEnd(c)
  \/ ClientErrorEvent(c)
  \/ ClientCloseEvent(c)
  \/ PoolErrorEvent(c)
  \/ PoolCloseEvent(c)
  \/ PoolTimeout(c)
  \/ IdleTimeout(c)

----------------------------------------------------------------------------
(* Spec: one admitted connection relaying two byte streams *)

ClientBytes == <<Tok("a"), Tok("c3"), Tok("cr"), Tok("a9"), Tok("a")>>
ClientStream == SubSeq(ClientBytes, 1, ClientFeedLen)
PoolStream == <<Tok("a9"), Tok("a")>>

NoConns == [c \in Conns |-> NoConn]

Init ==
  LET h == HandleConnection(NewServer(0, FALSE), NoConns, "10.0.0.1", 0,
                            ClientStream, PoolStream,
                            Options.timeoutMs, Options.idleTimeoutMs)
  IN /\ now = 0
     /\ srv = h.srv
     /\ conn = h.conn
     /\ met = NewMetrics

Next ==
  \/ RelayStep(1)
  \/ Tick(1, MaxTime)

Spec == Init /\ [][Next]_vars

----------------------------------------------------------------------------
(* The relay's claims, checked under Spec *)

R == conn[1]

\* C1: every chunk received from a peer while the relay is not closed and the
\* opposite socket is not destroyed is passed to exactly one write on the
\* opposite socket, in arrival order: the writes on each socket are exactly
\* those chunks, and the bytes written are a prefix of the peer's stream.
C1_ForwardedOnceInOrder ==
  /\ R.pool.writes = R.client.recv
  /\ R.client.writes = R.pool.recv
  /\ \E k \in 0..Len(ClientStream) :
       Flatten(R.pool.writes) = SubSeq(ClientStream, 1, k)
  /\ \E k \in 0..Len(PoolStream) :
       Flatten(R.client.writes) = SubSeq(PoolStream, 1, k)

\* the whole client stream reached the pool socket in two writes, the first of
\* which filled the buffer (the client was paused and resumed in between)
C1_Witness ==
  /\ Len(R.pool.writes) = 2
  /\ TextLen(R.pool.writes[1]) >= HighWaterMark
  /\ Flatten(R.pool.writes) = ClientStream
  /\ R.client.writes # <<>>

\* a write on socket b in this step, and it reported a full buffer
WroteFull(b, b2) == b2.writes # b.writes /\ Unflushed(b2) >= HighWaterMark

\* socket b emitted 'drain' in this step
Drained(b, b2) == b.needDrain /\ ~b2.needDrain

\* reception on a is paused exactly by a full write on b, resumed exactly by
\* b's drain
PairedFlow(a, a2, b, b2) ==
  /\ (~a.paused /\ a2.paused) => WroteFull(b, b2)
  /\ WroteFull(b, b2) => a2.paused
  /\ (a.paused /\ ~a2.paused) => Drained(b, b2)
  /\ (Drained(b, b2) /\ a2.st # "destroyed") => ~a2.paused
  /\ (b2.writes # b.writes \/ Drained(b, b2)) => b2.paused = b.paused

\* C2: per direction, reception on a socket is paused if and only if a write of
\* its chunk to the opposite socket reported a full buffer and resumed if and
\* only if the opposite socket emits 'drain'; a full write or a drain of one
\* direction leaves the pause state of the other direction alone.
C2_PauseIffFullResumeIffDrain ==
  [][ /\ PairedFlow(R.client, R.client', R.pool, R.pool')
      /\ PairedFlow(R.pool, R.pool', R.client, R.client') ]_vars

\* the pool socket is paused by the client's full buffer while the other
\* direction, having written, stays unpaused
C2_Witness ==
  /\ ~R.closed
  /\ R.pool.paused /\ R.client.needDrain
  /\ ~R.client.paused /\ R.pool.writes # <<>>

\* the bytes of a socket's buffer without the chunk written last
BeforeLastWrite(b) ==
  IF b.wbuf = <<>> THEN 0
  ELSE TextLen(Flatten(SubSeq(b.wbuf, 1, Len(b.wbuf) - 1)))

\* C3: the unflushed bytes of a socket exceed the high-water mark by less than
\* one chunk (without the chunk written last they are below the mark), and
\* after a write reported a full buffer no chunk is written to that socket
\* until it has drained.
C3_BoundedUnflushed ==
  /\ [](BeforeLastWrite(R.pool) < HighWaterMark
          /\ BeforeLastWrite(R.client) < HighWaterMark)
  /\ [][ /\ R.pool.needDrain => R.pool'.writes = R.pool.writes
         /\ R.client.needDrain => R.client'.writes = R.client.writes ]_vars

\* a buffer above the mark: the last chunk crossed it
C3_Witness ==
  /\ Unflushed(R.pool) > HighWaterMark
  /\ R.client.paused /\ R.pool.needDrain

\* the relay without the events its destroyed sockets still owe
Settled(r) ==
  [r EXCEPT !.client.errPending = FALSE, !.client.closePending = FALSE,
            !.pool.errPending = FALSE, !.pool.closePending = FALSE]

\* C4: whatever close triggers occur and in whatever order, exactly one
\* connection_closed event is emitted, and a trigger that arrives after the
\* first changes nothing.
C4_CloseIdempotent ==
  /\ [](R.closedEvents = (IF R.closed THEN 1 ELSE 0))
  /\ [][ R.closed => (Settled(R') = Settled(R) /\ srv' = srv /\ met' = met) ]_vars

\* closed, and every owed 'error' and 'close' event of both sockets has been
\* handled since: at least two later triggers ran
C4_Witness ==
  /\ R.closed /\ R.closedEvents = 1
  /\ ~R.client.errPending /\ ~R.client.closePending
  /\ ~R.pool.errPending /\ ~R.pool.closePending

----------------------------------------------------------------------------
(* SpecServer: the listener admitting connection attempts *)

\* what the listener sees of a relay: the downstream peer leaves and the
\* relay closes
ServerRelayStep(c) ==
  \/ ClientEnd(c)
  \/ ClientCloseEvent(c)

\* the clock steps of the listener's runs: one millisecond less than a
\* throttle window, and a whole window
ServerTicks == {CONNECTION_THROTTLE_MS - 1, CONNECTION_THROTTLE_MS}

InitServer ==
  /\ now = 0
  /\ \E mc \in {0, MaxConnections} : srv = NewServer(mc, FALSE)
  /\ conn = NoConns
  /\ met = NewMetrics

NextServer ==
  \/ \E ip \in Addrs : Accept(ip, <<>>, <<>>)
  \/ \E c \in Conns : ServerRelayStep(c)
  \/ Stop
  \/ \E d \in ServerTicks : Tick(d, MaxWindows * CONNECTION_THROTTLE_MS)

SpecServer == InitServer /\ [][NextServer]_vars

A(i) == srv.attempts[i]

\* an earlier attempt from the same address was admitted less than a window
\* before attempt i
InWindow(i) ==
  \E j \in 1..(i - 1) :
    /\ A(j).ip = A(i).ip /\ A(j).outcome = "admitted"
    /\ A(i).t - A(j).t < CONNECTION_THROTTLE_MS

\* C5: of the attempts of one address, one that arrives less than a window
\* (5000 ms) after an admitted one is rejected as throttled and gets no relay;
\* one that does not passes the throttle, and is admitted (when no ceiling is
\* configured, always): exactly the first attempt of each window is admitted.
C5_FirstOfWindowAdmitted ==
  \A i \in 1..Len(srv.attempts) :
    /\ InWindow(i) <=> A(i).outcome = "throttled"
    /\ srv.maxConnections = 0 => (~InWindow(i) <=> A(i).outcome = "admitted")
    /\ A(i).outcome = "admitted" <=> conn[A(i).n].live

\* one address: admitted, throttled in the same window, admitted again once
\* the window has passed
C5_Witness ==
  \E i, j, k \in 1..Len(srv.attempts) :
    /\ i < j /\ j < k
    /\ A(i).ip = A(j).ip /\ A(j).ip = A(k).ip
    /\ A(i).outcome = "admitted" /\ A(j).outcome = "throttled"
    /\ A(k).outcome = "admitted"

OpenRelays == {n \in Conns : conn[n].live /\ conn[n].closedEvents = 0}

RejectedNow ==
  /\ Len(srv'.attempts) = Len(srv.attempts) + 1
  /\ srv'.attempts[Len(srv'.attempts)].outcome # "admitted"

\* C7: a rejected attempt has its socket destroyed, creates no relay, adds
\* nothing to the tracked set and puts no event on the server's event stream
\* (nor changes anything the collector holds).
C7_RejectionLeavesNoTrace ==
  /\ [](\A i \in 1..Len(srv.attempts) :
          A(i).outcome # "admitted" =>
            /\ ~conn[A(i).n].live
            /\ conn[A(i).n].client.st = "destroyed"
            /\ A(i).n \notin srv.connections)
  /\ [][ RejectedNow =>
           /\ \A c \in Conns : c # srv'.clientCounter => conn'[c] = conn[c]
           /\ srv'.connections = srv.connections
           /\ srv'.emitted = srv.emitted /\ srv'.events = srv.events
           /\ met' = met ]_vars

\* an attempt has been rejected, its socket destroyed, beside relays whose
\* events reached the stream
C7_Witness ==
  /\ \E i \in 1..Len(srv.attempts) :
       A(i).outcome # "admitted" /\ conn[A(i).n].client.st = "destroyed"
  /\ srv.emitted > 0 /\ srv.connections # {}

----------------------------------------------------------------------------
(* SpecParser: one relay observing a downstream byte stream *)

Big == <<"a", BUFFER_LIMIT - 1>>

\* the lines a peer sends:  {"params":["e-acute"]} ,  {"id":1} before CR LF,
\* an object of more than 65536 characters, 65537 and 65536 letters, and a
\* byte that is no UTF-8 before a letter
ParserLines ==
  { <<Tok("lb"), Tok("c3"), Tok("a9"), Tok("rb")>>,
    <<Tok("a9"), Tok("a")>>,
    <<Tok("lb"), Tok("id:1"), Tok("rb"), Tok("cr")>>,
    <<Tok("lb"), Big, Tok("a"), Tok("rb")>>,
    <<Big, Tok("a"), Tok("a")>>,
    <<Big, Tok("a")>> }

\* the streams of 1..n lines, each line ended by a line feed
RECURSIVE ParserStreams(_)
ParserStreams(n) ==
  IF n = 0 THEN {<<>>}
  ELSE LET shorter == ParserStreams(n - 1)
       IN shorter \cup {l \o <<Tok("lf")>> \o st : l \in ParserLines, st \in shorter}

InitParser ==
  /\ now = 0
  /\ met = NewMetrics
  /\ \E stream \in ParserStreams(MaxLines) \ {<<>>} :
       LET h == HandleConnection(NewServer(0, TRUE), NoConns, "10.0.0.1", 0,
                                 stream, <<>>, ServiceOptions.timeoutMs,
                                 ServiceOptions.idleTimeoutMs)
       IN srv = h.srv /\ conn = h.conn

NextParser ==
  \/ \E k \in 1..MaxChunk : ClientData(1, k)
  \/ PoolConnect(1)
  \/ PoolFlush(1)
  \/ PoolDrain(1)

SpecParser == InitParser /\ [][NextParser]_vars

\* the messages of the request events on the server's stream, in order
RECURSIVE Requests(_)
Requests(es) ==
  IF es = <<>> THEN <<>>
  ELSE (IF es[1].type = "stratum_request" THEN <<es[1].data.msg>> ELSE <<>>)
         \o Requests(Tail(es))

\* the bytes received so far, as one chunk
Received == Flatten(R.client.recv)

\* C8: once the whole stream has arrived, in whatever chunks, the messages the
\* observer has surfaced are those it surfaces for the stream as one chunk
\* (stated here for the streams that fit the accumulator whole, so that no
\* discard is involved).
C8_SameMessagesForAnySplit ==
  R.client.feed = <<>> /\ TextLen(Received) <= BUFFER_LIMIT =>
    Requests(srv.events) = ParserWrite(NewParser, Received).msgs

\* the text the observer holds before it bounds it, in a step that receives a
\* chunk
Pending ==
  LET chunk == R'.client.recv[Len(R'.client.recv)]
      lines == SplitLines(Concat(R.parser.buffer, Utf8Decode(chunk)))
  IN lines[Len(lines)]

\* C9: after every observe call the accumulator of either direction holds at
\* most 65536 characters; a retained partial line longer than that is discarded
\* whole, and in that step the relay stays open and the chunk is forwarded.
C9_AccumulatorBounded ==
  /\ [](/\ TextLen(R.parser.buffer) <= BUFFER_LIMIT
        /\ TextLen(R.responseParser.buffer) <= BUFFER_LIMIT)
  /\ [][ Len(R'.client.recv) = Len(R.client.recv) + 1 =>
           /\ R'.parser.buffer =
                (IF TextLen(Pending) > BUFFER_LIMIT THEN <<>> ELSE Pending)
           /\ ~R'.closed
           /\ R'.pool.writes = R'.client.recv ]_vars

\* 65537 characters without a line feed have arrived and been forwarded, and
\* the accumulator is empty
C9_Witness ==
  /\ TextLen(Received) > BUFFER_LIMIT
  /\ \A i \in 1..Len(Received) : Code(Received[i]) # "lf"
  /\ R.parser.buffer = <<>>
  /\ R.pool.writes = R.client.recv /\ ~R.closed

----------------------------------------------------------------------------
(* SpecMetrics: two relays whose protocol events reach the collector *)

Line(lexemes) ==
  <<Tok("lb")>> \o [i \in 1..Len(lexemes) |-> Tok(lexemes[i])]
    \o <<Tok("rb"), Tok("lf")>>

Submit1 == Line(<<"id:1", "method:mining.submit">>)
Authorize1 == Line(<<"id:1", "method:mining.authorize">>)
Accepted1 == Line(<<"id:1", "result:true", "error:null">>)
Rejected2 == Line(<<"id:2", "result:null", "error:obj">>)
Truthy1 == Line(<<"id:1", "result:1", "error:null">>)

\* what the downstream peer of relay 1 sends: a submit, an authorize, or the
\* same submit twice, all with identifier 1
RequestFeeds == {Submit1, Authorize1, Submit1 \o Submit1}

\* what the upstream peer of relay 1 sends: the response to 1, a rejection of
\* 2, the response to 1 twice, or a response to 1 whose result is the number 1
ResponseFeeds == {Accepted1, Rejected2, Accepted1 \o Accepted1, Truthy1}

\* the length of the first line of a non-empty feed, line feed included
LineEnd(f) ==
  IF \E i \in 1..Len(f) : Code(f[i]) = "lf"
  THEN CHOOSE i \in 1..Len(f) :
         Code(f[i]) = "lf" /\ \A j \in 1..(i - 1) : Code(f[j]) # "lf"
  ELSE Len(f)

\* relay 1 carries requests and responses; relay 2 receives a response to a
\* request it never sent
InitMetrics ==
  /\ now = 0
  /\ met = NewMetrics
  /\ \E requests \in RequestFeeds, responses \in ResponseFeeds :
       LET h1 == HandleConnection(NewServer(0, TRUE), NoConns, "10.0.0.1", 0,
                                  requests, responses, ServiceOptions.timeoutMs,
                                  ServiceOptions.idleTimeoutMs)
           h2 == HandleConnection(h1.srv, h1.conn, "10.0.0.2", 0, <<>>,
                                  Accepted1,
                                  ServiceOptions.timeoutMs,
                                  ServiceOptions.idleTimeoutMs)
       IN srv = h2.srv /\ conn = h2.conn

\* the callbacks of a relay whose peers send whole lines
MetricsRelayStep(c) ==
  \/ ClientData(c, LineEnd(conn[c].client.feed))
  \/ PoolData(c, LineEnd(conn[c].pool.feed))
  \/ PoolConnect(c)
  \/ ClientFlush(c)
  \/ PoolFlush(c)
  \/ ClientDrain(c)
  \/ PoolDrain(c)

\* relay 2 only dials and receives
NextMetrics ==
  \/ MetricsRelayStep(1)
  \/ PoolConnect(2)
  \/ PoolData(2, LineEnd(conn[2].pool.feed))
  \/ Tick(1, MaxTime)

SpecMetrics == InitMetrics /\ [][NextMetrics]_vars

E == srv.events

RealIds == {"1", "2"}

SubmitOnly == {"mining.submit"}

AnyRequest == {"none", "mining.submit", "mining.authorize", "mining.subscribe",
               "mining.set_difficulty", "mining.notify"}

IsRequest(j, c, i, methods) ==
  /\ E[j].type = "stratum_request" /\ E[j].connection_id = c
  /\ E[j].data.msg.id = i /\ E[j].data.msg.method \in methods

IsResponse(k, c, i) ==
  /\ E[k].type = "stratum_response" /\ E[k].connection_id = c
  /\ E[k].data.msg.id = i

\* event k is the first response that follows request j with j's connection
\* and identifier, and j is the last such request before k
Answers(j, k, methods) ==
  /\ j < k
  /\ \E c \in Conns, i \in RealIds :
       /\ IsRequest(j, c, i, methods) /\ IsResponse(k, c, i)
       /\ \A x \in (j + 1)..(k - 1) :
            ~IsRequest(x, c, i, methods) /\ ~IsResponse(x, c, i)

Pairs(methods) ==
  {p \in {j \in 1..Len(E) : E[j].type = "stratum_request"}
           \X {k \in 1..Len(E) : E[k].type = "stratum_response"} :
     Answers(p[1], p[2], methods)}

ObsOf(p) == Obs(E[p[2]].client_id, E[p[2]].timestamp - E[p[1]].timestamp)

\* the latency histogram holds one observation per pair, the difference of the
\* two timestamps, and nothing else
OnePerPair(methods) ==
  LET lat == met.requestResponseLatency
      pairs == Pairs(methods)
  IN /\ \A p \in pairs :
          /\ ObsOf(p) \in DOMAIN lat
          /\ lat[ObsOf(p)] = Cardinality({q \in pairs : ObsOf(q) = ObsOf(p)})
     /\ \A o \in DOMAIN lat : \E p \in pairs : ObsOf(p) = o

\* C10 as claimed: every request with identifier i, whatever its method, that
\* is followed by a response with identifier i on its connection yields exactly
\* one latency observation, the difference of the two timestamps, and no
\* other response yields one.
C10_EveryRequestTimed == OnePerPair(AnyRequest)

\* C10, amended: every mining.submit request with identifier i that is
\* followed by a response with identifier i on its connection yields exactly
\* one latency observation, the difference of the two timestamps, measured from
\* the last such request; a response whose identifier is not that of a pending
\* submit request of its connection yields none.
C10_SubmitRequestTimed == OnePerPair(SubmitOnly)

\* a submit has been answered a millisecond or more after it was sent, and
\* another connection has received a response to a request it never sent
C10_Witness ==
  /\ \E p \in Pairs(SubmitOnly) : ObsOf(p).value > 0
  /\ \E k \in 1..Len(E) :
       /\ E[k].type = "stratum_response" /\ E[k].data.msg.id \in RealIds
       /\ \A j \in 1..Len(E) :
            ~IsRequest(j, E[k].connection_id, E[k].data.msg.id, AnyRequest)

----------------------------------------------------------------------------
(* The acceptance counters *)

CountOf(f, k) == IF k \in DOMAIN f THEN f[k] ELSE 0

\* the label values that occur on the stream or in a counter
Labels(f) == {E[k].client_id : k \in 1..Len(E)} \cup DOMAIN f

\* the response events with a real identifier, label l and a result (an error)
\* among vs
WithResult(l, vs) ==
  {k \in 1..Len(E) : /\ E[k].type = "stratum_response" /\ E[k].client_id = l
                     /\ E[k].data.msg.id \in RealIds
                     /\ E[k].data.msg.result \in vs}

WithError(l, vs) ==
  {k \in 1..Len(E) : /\ E[k].type = "stratum_response" /\ E[k].client_id = l
                     /\ E[k].data.msg.id \in RealIds
                     /\ E[k].data.msg.error \in vs}

\* the results JavaScript takes for true in a condition, among those of the
\* model: true and the number 1
Truthy == {"true", "1"}

\* C11 as claimed: every response with a truthy or null result has incremented
\* the accepted counter once, every response with a non-null error the rejected
\* counter once, and nothing else has incremented them (stated for responses
\* that carry an identifier).
C11_TruthyOrNullAccepted ==
  /\ \A l \in Labels(met.acceptedShares) :
       CountOf(met.acceptedShares, l) = Cardinality(WithResult(l, Truthy \cup {"null"}))
  /\ \A l \in Labels(met.rejectedShares) :
       CountOf(met.rejectedShares, l) = Cardinality(WithError(l, {"obj"}))

----------------------------------------------------------------------------
(* SpecIdle: one relay under its idle watchdog *)

\* an idle time of two clock steps; the connect timeout of the service
IdleOptions == [timeoutMs |-> ServiceOptions.timeoutMs, idleTimeoutMs |-> 2]

IdleClockLimit == MaxTime + IdleOptions.idleTimeoutMs

InitIdle ==
  LET h == HandleConnection(NewServer(0, FALSE), NoConns, "10.0.0.1", 0,
                            <<Tok("a"), Tok("a")>>, <<Tok("a"), Tok("a")>>,
                            IdleOptions.timeoutMs, IdleOptions.idleTimeoutMs)
  IN /\ now = 0
     /\ srv = h.srv
     /\ conn = h.conn
     /\ met = NewMetrics

NextIdle ==
  \/ \E k \in 1..MaxChunk : ClientData(1, k)
  \/ \E k \in 1..MaxChunk : PoolData(1, k)
  \/ PoolConnect(1)
  \/ ClientFlush(1)
  \/ PoolFlush(1)
  \/ ClientDrain(1)
  \/ PoolDrain(1)
  \/ ClientEnd(1)
  \/ ClientCloseEvent(1)
  \/ IdleTimeout(1)
  \/ Tick(1, IdleClockLimit)

\* a timer that has expired runs its callback
SpecIdle == InitIdle /\ [][NextIdle]_vars /\ WF_vars(IdleTimeout(1))

ChunkReceived ==
  \/ Len(R'.client.recv) = Len(R.client.recv) + 1
  \/ Len(R'.pool.recv) = Len(R.pool.recv) + 1

IdleDue == ~R.closed /\ R.idleTimerAt >= 0 /\ now >= R.idleTimerAt

\* C12: every chunk received from either transport re-arms the idle timer to
\* the full idle duration from that moment; while the relay is open the timer
\* is armed for the idle duration after the last chunk (or the construction);
\* the timer's callback never runs sooner than the idle duration after the
\* last chunk; and once that duration has passed with no chunk the relay is
\* closed, unless a chunk arrives first.
C12_IdleTimerRearmed ==
  /\ [](~R.closed => R.idleTimerAt = R.lastActivityTime + R.idleTimeoutMs)
  /\ [][ChunkReceived =>
          /\ R'.lastActivityTime = now
          /\ R'.idleTimerAt = now + R.idleTimeoutMs ]_vars
  /\ [][IdleTimeout(1) =>
          /\ now - R.lastActivityTime >= R.idleTimeoutMs
          /\ R'.closed ]_vars
  /\ (IdleDue ~> (R.closed \/ R.idleTimerAt > now))

\* the timer's callback has closed the relay (both sockets still owe their
\* 'close') at the deadline that its last chunk, received after the
\* construction, had set
C12_Witness ==
  /\ R.closed /\ R.client.closePending /\ R.pool.closePending
  /\ R.lastActivityTime > 0
  /\ now = R.lastActivityTime + R.idleTimeoutMs

\* the closure events a handler emits
ClosureEvents(r) ==
  {[type |-> r.out[i].type, data |-> r.out[i].data] :
     i \in {j \in 1..Len(r.out) : r.out[j].type = "connection_closed"}}

\* C13 as claimed: the closure event of an idle expiry can be told from the
\* closure event of an end of stream.  Stated where both are about to happen:
\* the idle timer has expired and the downstream socket owes its 'close'; the
\* event the timer's callback emits differs from the one the 'close' handler
\* emits.
C13_IdleClosureDistinct ==
  IdleDue /\ R.client.closePending =>
    ClosureEvents(OnIdleTimeout(R, now)) # ClosureEvents(OnClientClose(R, now))

----------------------------------------------------------------------------
(* SpecObserve: one relay observing the lines of both peers *)

StringLine(lexemes, str) ==
  <<Tok("lb")>> \o [i \in 1..Len(lexemes) |-> Tok(lexemes[i])] \o str
    \o <<Tok("rb"), Tok("lf")>>

\* {"id":1,"method":"mining.authorize","params":["a"]}, the same for worker
\* "aa", and {"id":1,"method":"mining.authorize","params":[1]}
AuthA == StringLine(<<"id:1", "method:mining.authorize">>, <<Tok("a")>>)
AuthAA == StringLine(<<"id:2", "method:mining.authorize">>, <<(<<"a", 2>>)>>)
AuthNum == Line(<<"id:1", "method:mining.authorize", "params:num">>)

\* {"method":"mining.subscribe"} and {"id":1,"result":true} from downstream
SubscribeNoId == Line(<<"method:mining.subscribe">>)
ClientResult == Line(<<"id:1", "result:true">>)

\* {"id":1,"method":"mining.notify"}, {} and
\* {"id":null,"method":"mining.set_difficulty","params":[1024]} from upstream
NotifyWithId == Line(<<"id:1", "method:mining.notify">>)
Bare == Line(<<>>)
SetDifficulty == Line(<<"id:null", "method:mining.set_difficulty", "params:num">>)

\* a line that is no JSON
Garbage == <<Tok("a"), Tok("lf")>>

\* the pairs <<downstream bytes, upstream bytes>> of the runs
Scenarios ==
  { <<AuthNum \o AuthA, <<>> >>,
    <<AuthA \o AuthAA, <<>> >>,
    <<Garbage \o Garbage, Garbage>>,
    <<SubscribeNoId \o ClientResult, <<>> >>,
    << <<>>, NotifyWithId \o Bare>>,
    << <<>>, SetDifficulty \o SetDifficulty>> }

InitObserve ==
  /\ now = 0
  /\ met = NewMetrics
  /\ \E sc \in Scenarios :
       LET h == HandleConnection(NewServer(0, TRUE), NoConns, "10.0.0.1", 0,
                                 sc[1], sc[2], ServiceOptions.timeoutMs,
                                 ServiceOptions.idleTimeoutMs)
       IN srv = h.srv /\ conn = h.conn

NextObserve ==
  \/ \E k \in 1..MaxChunk : ClientData(1, k)
  \/ \E k \in 1..MaxChunk : PoolData(1, k)
  \/ PoolConnect(1)
  \/ ClientFlush(1)
  \/ PoolFlush(1)
  \/ ClientDrain(1)
  \/ PoolDrain(1)

SpecObserve == InitObserve /\ [][NextObserve]_vars

\* the messages of the events of the given types on the stream, in order
RECURSIVE MsgsOf(_, _)
MsgsOf(es, types) ==
  IF es = <<>> THEN <<>>
  ELSE (IF es[1].type \in types THEN <<es[1].data.msg>> ELSE <<>>)
         \o MsgsOf(Tail(es), types)

IsStringAuth(m) == m.method = "mining.authorize" /\ m.params = "str"

\* the string a connection should be bound to: the first parameter of the
\* first authorization request whose first parameter is a non-empty string
FirstStringAuth(ms) ==
  IF \E i \in 1..Len(ms) : IsStringAuth(ms[i])
  THEN ms[CHOOSE i \in 1..Len(ms) :
            IsStringAuth(ms[i]) /\ \A j \in 1..(i - 1) : ~IsStringAuth(ms[j])].str
  ELSE <<>>

\* C14 as claimed: the worker identity and the label are those of the first
\* authorization request whose first parameter is a non-empty string, and are
\* unset (the label the initial one) while there has been none; hence set at
\* most once.
C14_FirstStringAuthBinds ==
  LET bound == FirstStringAuth(MsgsOf(E, {"stratum_request"}))
  IN /\ R.workerName = bound
     /\ R.client_id = (IF bound = <<>> THEN MinerId(R.id) ELSE bound)

----------------------------------------------------------------------------
(* Closed is terminal (checked under Spec) *)

\* C15: once the relay has emitted its closure event it has no subscriber
\* left, and no step afterwards, whatever socket event it handles, puts an
\* event on the server's stream or reaches the collector.
C15_ClosedIsTerminal ==
  /\ [](R.closedEvents > 0 => ~R.listeners /\ R.out = <<>>)
  /\ [][ R.closedEvents > 0 =>
           /\ srv'.emitted = srv.emitted
           /\ met' = met
           /\ R'.closedEvents = R.closedEvents ]_vars

\* the relay has emitted its closure event while the upstream socket still
\* owes an 'error', whose handler emits an error event, and its 'close'
C15_Witness ==
  /\ R.closedEvents = 1 /\ R.pool.errPending /\ R.pool.closePending
  /\ R.client.closePending

----------------------------------------------------------------------------
(* Observation faults (checked under SpecParser) *)

\* the bytes of the downstream stream, received or still to come
WholeStream(r) == Flatten(r.client.recv) \o r.client.feed

\* C16: whatever a chunk holds (malformed JSON, bytes that are no UTF-8, an
\* oversized unterminated line), the step that receives it writes it unchanged
\* to the opposite transport, as the next write, and leaves the relay open; the
\* relay is never closed in a run whose only events are chunks and flushes.
C16_FaultsNeverAffectForwarding ==
  /\ [](~R.closed /\ R.client.st = "open" /\ R.pool.st # "destroyed")
  /\ [][ Len(R'.client.recv) = Len(R.client.recv) + 1 =>
           /\ WholeStream(R') = WholeStream(R)
           /\ R'.pool.writes =
                Append(R.pool.writes, R'.client.recv[Len(R'.client.recv)])
           /\ ~R'.closed ]_vars

\* the observer has met a line that is no JSON and holds a byte that is no
\* UTF-8; all that was received has been written and the relay is open
C16_Witness ==
  /\ R.parser.nonJsonWarned
  /\ \E i \in 1..Len(Received) : Code(Received[i]) = "a9"
  /\ \A i \in 1..Len(Received) : Code(Received[i]) # "c3"
  /\ R.pool.writes = R.client.recv /\ R.client.recv # <<>> /\ ~R.closed

----------------------------------------------------------------------------
(* Classification of decoded messages (checked under SpecObserve) *)

MessageEvents == {"stratum_request", "stratum_notification", "stratum_response"}

\* the class the shape of a message gives it
Shape(m) ==
  IF m.method # "none" /\ m.id = "none" THEN "stratum_notification"
  ELSE IF m.method # "none" THEN "stratum_request"
  ELSE IF m.id # "none" /\ (m.result # "none" \/ m.error # "none")
       THEN "stratum_response"
       ELSE "none"

\* C17 as claimed: every message event has the type the shape of its message
\* gives: notification for a method and no id, request for a method and an id,
\* response for an id and a result or an error.
C17_ClassifiedByShape ==
  \A k \in 1..Len(E) :
    E[k].type \in MessageEvents => E[k].type = Shape(E[k].data.msg)

\* the messages in the bytes received so far from a peer
Decoded(recv) == ParserWrite(NewParser, Flatten(recv)).msgs

RECURSIVE Select(_, _)
Select(ms, withMethod) ==
  IF ms = <<>> THEN <<>>
  ELSE (IF (ms[1].method # "none") = withMethod THEN <<ms[1]>> ELSE <<>>)
         \o Select(Tail(ms), withMethod)

\* C17, amended: every message decoded from the downstream peer is emitted as
\* a request event, whatever its shape; a message decoded from the upstream
\* peer is emitted as a notification event when it has a method and as a
\* response event when it has none.
C17_ClassifiedByDirection ==
  /\ MsgsOf(E, {"stratum_request"}) = Decoded(R.client.recv)
  /\ MsgsOf(E, {"stratum_notification"}) = Select(Decoded(R.pool.recv), TRUE)
  /\ MsgsOf(E, {"stratum_response"}) = Select(Decoded(R.pool.recv), FALSE)

\* an upstream message with a method and an id has been emitted as a
\* notification, one with neither method nor id as a response
C17_Witness ==
  /\ \E k \in 1..Len(E) :
       /\ E[k].type = "stratum_notification"
       /\ E[k].data.msg.id = "1" /\ E[k].data.msg.method = "mining.notify"
  /\ \E k \in 1..Len(E) :
       /\ E[k].type = "stratum_response"
       /\ E[k].data.msg.id = "none" /\ E[k].data.msg.method = "none"

----------------------------------------------------------------------------
(* One accepted share (checked under SpecMetrics) *)

EventsOf(c, type) ==
  {k \in 1..Len(E) : E[k].connection_id = c /\ E[k].type = type}

\* connection c has sent one request, a mining.submit with identifier 1, and
\* then received one response, with identifier 1, result true and error null:
\* events j and k
OneAcceptedShare(c, j, k) ==
  /\ EventsOf(c, "stratum_request") = {j}
  /\ EventsOf(c, "stratum_response") = {k}
  /\ j < k
  /\ E[j].data.msg.method = "mining.submit" /\ E[j].data.msg.id = "1"
  /\ E[k].data.msg.id = "1" /\ E[k].data.msg.result = "true"
  /\ E[k].data.msg.error = "null"

\* C18: a mining.submit request with a non-null id followed on its connection
\* by a response with that id, result true and error null has counted one
\* submit, one accepted share, no rejected share, and one latency observation,
\* the time between the two events.
C18_OneAcceptedShare ==
  \A j, k \in 1..Len(E) :
    OneAcceptedShare(1, j, k) =>
      LET l == E[k].client_id
      IN /\ CountOf(met.submitsTotal, l) = 1
         /\ CountOf(met.acceptedShares, l) = 1
         /\ CountOf(met.rejectedShares, l) = 0
         /\ met.requestResponseLatency =
              (Obs(l, E[k].timestamp - E[j].timestamp) :> 1)

\* the share was accepted a clock step after it was submitted
C18_Witness ==
  \E j, k \in 1..Len(E) :
    OneAcceptedShare(1, j, k) /\ E[k].timestamp > E[j].timestamp

----------------------------------------------------------------------------
(* Lines split across chunks (checked under SpecObserve) *)

\* the line terminators in a text
Terminators(text) ==
  Cardinality({i \in 1..Len(text) : Code(text[i]) = "lf"})

\* every complete line of the bytes received so far is a JSON object
JsonOnly(recv) == ParserWrite(NewParser, Flatten(recv)).signals = 0

\* the difficulty notifications emitted so far
Difficulties ==
  {k \in 1..Len(E) : /\ E[k].type = "stratum_notification"
                     /\ E[k].data.msg.method = "mining.set_difficulty"}

\* C19: however the lines of a stream of JSON objects are cut into chunks,
\* there are at every moment as many decoded messages from a peer as line
\* terminators received from it: a line is decoded once, by the chunk that
\* brings its terminator.  For an upstream mining.set_difficulty line this is
\* one notification event and one count, and the difficulty gauge holds its
\* numeric parameter.
C19_SplitLineDecodedOnce ==
  /\ JsonOnly(R.client.recv) =>
       Len(MsgsOf(E, {"stratum_request"})) = Terminators(Flatten(R.client.recv))
  /\ JsonOnly(R.pool.recv) =>
       Len(MsgsOf(E, {"stratum_notification", "stratum_response"}))
         = Terminators(Flatten(R.pool.recv))
  /\ Cardinality(Difficulties)
       = Len(SelectSeq(Decoded(R.pool.recv),
                       LAMBDA m : m.method = "mining.set_difficulty"))
  /\ CountOf(met.notificationsTotal, <<R.client_id, "mining.set_difficulty">>)
       = Cardinality(Difficulties)
  /\ Difficulties # {} =>
       /\ R.client_id \in DOMAIN met.currentDifficulty
       /\ met.currentDifficulty[R.client_id] = "num"
  /\ Difficulties = {} => met.currentDifficulty = EmptyMap

\* a mining.set_difficulty line has arrived in three chunks, the first two
\* without a terminator, and has been decoded once
C19_Witness ==
  /\ Len(R.pool.recv) = 3
  /\ Terminators(R.pool.recv[1] \o R.pool.recv[2]) = 0
  /\ Cardinality(Difficulties) = 1
  /\ CountOf(met.notificationsTotal, <<R.client_id, "mining.set_difficulty">>) = 1
  /\ met.currentDifficulty = (R.client_id :> "num")

----------------------------------------------------------------------------
(* The non-JSON signal (checked under SpecObserve) *)

\* the non-JSON log lines a parser has written: it writes one when it meets a
\* line that is no JSON while nonJsonWarned is unset, and sets it
Signalled(p) == IF p.nonJsonWarned THEN 1 ELSE 0

\* C20 as claimed: a connection raises at most one non-JSON signal, however
\* many lines that are no JSON arrive and from whichever peer.
C20_OneSignalPerConnection ==
  Signalled(R.parser) + Signalled(R.responseParser) <= 1

----------------------------------------------------------------------------
(* SpecStop: a listener with one relay at work is stopped *)

\* what each peer of the relay sends: as much as fills a socket's buffer
StopFeed == [i \in 1..HighWaterMark |-> Tok("a")]

InitStop ==
  LET h == HandleConnection(NewServer(0, FALSE), NoConns, "10.0.0.1", 0,
                            StopFeed, StopFeed,
                            ServiceOptions.timeoutMs,
                            ServiceOptions.idleTimeoutMs)
  IN /\ now = 0
     /\ srv = h.srv
     /\ conn = h.conn
     /\ met = NewMetrics

NextStop ==
  \/ \E ip \in Addrs : Accept(ip, <<>>, <<>>)
  \/ Stop
  \/ \E k \in 1..MaxChunk : ClientData(1, k)
  \/ \E k \in 1..MaxChunk : PoolData(1, k)
  \/ PoolConnect(1)
  \/ ClientFlush(1)
  \/ PoolFlush(1)
  \/ ClientDrain(1)
  \/ PoolDrain(1)

SpecStop == InitStop /\ [][NextStop]_vars

Stopping == srv.listening /\ ~srv'.listening

----------------------------------------------------------------------------
(* Event records after their emission (checked under SpecObserve) *)

\* emitEvent stores in the record the connection's own labels object
\* (labels: this.labels), not a copy: what a record kept by a subscriber reads
\* as labels.client_id is what that object holds now
LabelsNow(cn, e) == cn[e.connection_id].client_id

\* C22 as claimed: the labels of a record that has been emitted read at every
\* later time as they read when it was emitted, also after the connection has
\* bound a worker identity.
C22_EmittedLabelsFrozen ==
  \A k \in 1..Len(E) : LabelsNow(conn, E[k]) = E[k].client_id

----------------------------------------------------------------------------
(* SpecOrder: the runs of SpecObserve, where a peer's bytes may also arrive
   all at once *)

NextOrder ==
  \/ \E k \in 1..MaxChunk \cup {Len(conn[1].client.feed)} : ClientData(1, k)
  \/ \E k \in 1..MaxChunk \cup {Len(conn[1].pool.feed)} : PoolData(1, k)
  \/ PoolConnect(1)
  \/ ClientFlush(1)
  \/ PoolFlush(1)
  \/ ClientDrain(1)
  \/ PoolDrain(1)

SpecOrder == InitObserve /\ [][NextOrder]_vars

Item(type, bytes, msg) == [type |-> type, bytes |-> bytes, msg |-> msg]

\* what the events of a direction should be, chunk by chunk: the bytes event
\* of the chunk, then one message event for each object on the lines the
\* chunk completes, in the order of the lines
RECURSIVE Observed(_, _, _)
Observed(p, chunks, upstream) ==
  IF chunks = <<>> THEN <<>>
  ELSE LET w == ParserWrite(p, chunks[1])
       IN <<Item(IF upstream THEN "bytes_received" ELSE "bytes_sent",
                 TextLen(chunks[1]), NoMsg)>>
            \o [i \in 1..Len(w.msgs) |->
                  Item(IF ~upstream THEN "stratum_request"
                       ELSE IF w.msgs[i].method # "none"
                            THEN "stratum_notification"
                            ELSE "stratum_response",
                       0, w.msgs[i])]
            \o Observed(w.p, Tail(chunks), upstream)

\* the events of the given types, in the order of their emission
RECURSIVE Emitted(_, _)
Emitted(es, types) ==
  IF es = <<>> THEN <<>>
  ELSE (IF es[1].type \in types
        THEN <<Item(es[1].type, es[1].data.bytes, es[1].data.msg)>>
        ELSE <<>>)
         \o Emitted(Tail(es), types)

----------------------------------------------------------------------------
(* Counted and written bytes (checked under Spec) *)

\* C24 as claimed: the bytes added to a byte counter (and reported in a bytes
\* event) are the bytes written to the opposite socket: no chunk is counted
\* and not written, none written twice.
C24_CountedIsWritten ==
  /\ R.bytesSent = TextLen(Flatten(R.pool.writes))
  /\ R.bytesReceived = TextLen(Flatten(R.client.writes))
  /\ \E k \in 0..Len(ClientStream) :
       Flatten(R.pool.writes) = SubSeq(ClientStream, 1, k)
  /\ \E k \in 0..Len(PoolStream) :
       Flatten(R.client.writes) = SubSeq(PoolStream, 1, k)

----------------------------------------------------------------------------
(* SpecGauge: one relay from its dial to its closure, with or without an
   authorization request *)

InitGauge ==
  /\ now = 0
  /\ met = NewMetrics
  /\ \E requests \in {<<>>, AuthA} :
       LET h == HandleConnection(NewServer(0, TRUE), NoConns, "10.0.0.1", 0,
                                 requests, <<Tok("a")>>,
                                 ServiceOptions.timeoutMs,
                                 ServiceOptions.idleTimeoutMs)
       IN srv = h.srv /\ conn = h.conn

NextGauge ==
  \/ ClientData(1, LineEnd(conn[1].client.feed))
  \/ PoolData(1, 1)
  \/ PoolConnect(1)
  \/ ClientFlush(1)
  \/ PoolFlush(1)
  \/ PoolDrain(1)
  \/ PoolFail(1)
  \/ PoolEnd(1)
  \/ ClientEnd(1)
  \/ PoolErrorEvent(1)
  \/ PoolCloseEvent(1)
  \/ ClientCloseEvent(1)
  \/ Tick(1, MaxTime)

SpecGauge == InitGauge /\ [][NextGauge]_vars

\* event j is the opened event of a connection, with labels l
OpenedAs(j, c, l) ==
  /\ E[j].type = "connection_opened"
  /\ E[j].connection_id = c /\ E[j].client_id = l

ClosedAfter(j, c) ==
  \E k \in (j + 1)..Len(E) :
    E[k].type = "connection_closed" /\ E[k].connection_id = c

\* the connections that have emitted an opened event with labels l and no
\* closed event yet
OpenAs(l) ==
  {c \in Conns : \E j \in 1..Len(E) : OpenedAs(j, c, l) /\ ~ClosedAfter(j, c)}

\* C25 as claimed: for every label set the active-connection gauge is the
\* number of connections opened with those labels and not yet closed, hence
\* never negative; every closed event comes after an opened event of the same
\* connection with the same labels.
C25_GaugeCountsOpenConnections ==
  /\ \A l \in Labels(met.activeConnections) :
       /\ CountOf(met.activeConnections, l) >= 0
       /\ CountOf(met.activeConnections, l) = Cardinality(OpenAs(l))
  /\ \A k \in 1..Len(E) :
       E[k].type = "connection_closed" =>
         \E j \in 1..(k - 1) : OpenedAs(j, E[k].connection_id, E[k].client_id)

----------------------------------------------------------------------------
(* Share counters (checked under SpecMetrics, where a chunk is one line and a
   step delivers at most one response event) *)

ShareLabels == DOMAIN met.acceptedShares \cup DOMAIN met.rejectedShares
                 \cup DOMAIN met.submitsTotal

\* C26 as claimed: one response event increments at most one of the
\* accepted-share and rejected-share counters.
C26_AcceptedOrRejected ==
  [][ \A l \in ShareLabels' :
        ~ /\ CountOf(met'.acceptedShares, l) > CountOf(met.acceptedShares, l)
          /\ CountOf(met'.rejectedShares, l) > CountOf(met.rejectedShares, l) ]_vars

\* C27 as claimed: for every label set the accepted shares plus the rejected
\* shares are never more than the submits: only responses to recorded submit
\* requests are counted as shares.
C27_SharesWithinSubmits ==
  \A l \in ShareLabels :
    CountOf(met.acceptedShares, l) + CountOf(met.rejectedShares, l)
      <= CountOf(met.submitsTotal, l)

----------------------------------------------------------------------------
(* SpecDial: one relay whose connect timeout is shorter than its idle time *)

\* connection_timeout_ms and idle_timeout_ms, in clock units: the defaults are
\* 30 s and 300 s
DialOptions == [timeoutMs |-> 1, idleTimeoutMs |-> 2]

DialClockLimit == MaxTime + DialOptions.timeoutMs

InitDial ==
  LET h == HandleConnection(NewServer(0, FALSE), NoConns, "10.0.0.1", 0,
                            <<Tok("a"), Tok("a")>>, <<Tok("a"), Tok("a")>>,
                            DialOptions.timeoutMs, DialOptions.idleTimeoutMs)
  IN /\ now = 0
     /\ srv = h.srv
     /\ conn = h.conn
     /\ met = NewMetrics

NextDial ==
  \/ \E k \in 1..MaxChunk : ClientData(1, k)
  \/ \E k \in 1..MaxChunk : PoolData(1, k)
  \/ PoolConnect(1)
  \/ ClientFlush(1)
  \/ PoolFlush(1)
  \/ ClientDrain(1)
  \/ PoolDrain(1)
  \/ PoolTimeout(1)
  \/ IdleTimeout(1)
  \/ ClientCloseEvent(1)
  \/ PoolCloseEvent(1)
  \/ Tick(1, DialClockLimit)

SpecDial == InitDial /\ [][NextDial]_vars

\* C28 as claimed: once the upstream connection is established, the relay is
\* closed for inactivity only by the idle timer: a step that closes a relay
\* whose two sockets are open is one at which the idle time has passed since
\* the last chunk.
C28_TimeoutBoundsDialOnly ==
  [][ (~R.closed /\ R'.closed /\ R.pool.st = "open" /\ R.client.st = "open")
        => now >= R.lastActivityTime + R.idleTimeoutMs ]_vars

----------------------------------------------------------------------------
(* Unflushed bytes at closure (checked under Spec) *)

\* the bytes written to socket s and not flushed can still leave for its peer
Deliverable(s) == s.wbuf = <<>> \/ s.st \in {"connecting", "open"}

\* the step runs the 'close' handler of socket a, owed because its peer ended
\* the stream, and that handler closes the relay
ClosedByEndOf(a, a2) ==
  ~R.closed /\ R'.closed /\ a.closePending /\ ~a2.closePending

\* C29 as claimed: when the relay closes because a peer ended or closed its
\* side, the bytes already written to the opposite socket and not yet flushed
\* are not discarded: they can still be delivered.
C29_UnflushedSurvivesClose ==
  [][ /\ ClosedByEndOf(R.client, R'.client) => Deliverable(R'.pool)
      /\ ClosedByEndOf(R.pool, R'.pool) => Deliverable(R'.client) ]_vars

----------------------------------------------------------------------------
(* SpecFlow: one relay under backpressure, whose peers may end their streams.
   A socket that is open sends what its buffer holds, and a socket emits the
   'drain' and the 'close' it owes: weak fairness of those steps. *)

NextFlow ==
  \/ \E k \in 1..MaxChunk : ClientData(1, k)
  \/ \E k \in 1..MaxChunk : PoolData(1, k)
  \/ PoolConnect(1)
  \/ ClientFlush(1)
  \/ PoolFlush(1)
  \/ ClientDrain(1)
  \/ PoolDrain(1)
  \/ ClientEnd(1)
  \/ PoolEnd(1)
  \/ ClientCloseEvent(1)
  \/ PoolCloseEvent(1)

SpecFlow ==
  /\ InitStop /\ [][NextFlow]_vars
  /\ WF_vars(ClientFlush(1)) /\ WF_vars(PoolFlush(1))
  /\ WF_vars(ClientDrain(1)) /\ WF_vars(PoolDrain(1))
  /\ WF_vars(ClientCloseEvent(1)) /\ WF_vars(PoolCloseEvent(1))

\* reception on a is paused and its opposite socket b is connected
PausedOn(a, b) == ~R.closed /\ a.paused /\ b.st = "open"

\* C30: while the relay is not closed, a socket that is open and whose
\* reception is paused has an opposite socket that still owes its 'drain'; the
\* step at which that 'drain' is emitted resumes it; and a socket paused while
\* the opposite one is connected is resumed in the end, unless the relay is
\* closed first.
C30_PausedAwaitsDrain ==
  /\ [](~R.closed /\ R.client.paused /\ R.client.st = "open" => R.pool.needDrain)
  /\ [](~R.closed /\ R.pool.paused /\ R.pool.st = "open" => R.client.needDrain)
  /\ [][ /\ (Drained(R.pool, R'.pool) /\ R'.client.st # "destroyed")
              => ~R'.client.paused
         /\ (Drained(R.client, R'.client) /\ R'.pool.st # "destroyed")
              => ~R'.pool.paused ]_vars
  /\ PausedOn(R.client, R.pool) ~> (~R.client.paused \/ R.closed)
  /\ PausedOn(R.pool, R.client) ~> (~R.pool.paused \/ R.closed)

\* each direction was paused by a write that filled the opposite buffer and
\* has been resumed by the drain: nothing is owed, everything is flushed
C30_Witness ==
  /\ ~R.closed /\ ~R.client.paused /\ ~R.pool.paused
  /\ ~R.pool.needDrain /\ ~R.client.needDrain
  /\ R.pool.flushed = <<StopFeed>> /\ R.client.flushed = <<StopFeed>>

----------------------------------------------------------------------------
(* SpecShutdown: the runs of SpecStop, whose relay may also be closed by its
   downstream peer, up to the resolution of stop().  Sockets send what they
   hold and emit the events they owe, and the listening socket emits its
   'close' once it can: weak fairness of those steps.  The program schedules
   no step that ends a peer's stream. *)

NextShutdown ==
  \/ NextStop
  \/ ClientEnd(1)
  \/ ClientCloseEvent(1)
  \/ ServerClosed

SpecShutdown ==
  /\ InitStop /\ [][NextShutdown]_vars
  /\ WF_vars(ClientFlush(1)) /\ WF_vars(PoolFlush(1))
  /\ WF_vars(ClientDrain(1)) /\ WF_vars(PoolDrain(1))
  /\ WF_vars(ClientCloseEvent(1))
  /\ WF_vars(ServerClosed)

----------------------------------------------------------------------------
(* The opened event (checked under SpecObserve) *)

TrafficEvents ==
  {"bytes_sent", "bytes_received", "stratum_request", "stratum_response",
   "stratum_notification"}

\* C32 as claimed: every bytes, request, response or notification event of a
\* connection comes after the opened event of that connection.
C32_OpenedBeforeTraffic ==
  \A k \in 1..Len(E) :
    E[k].type \in TrafficEvents =>
      \E j \in 1..(k - 1) :
        /\ E[j].type = "connection_opened"
        /\ E[j].connection_id = E[k].connection_id

----------------------------------------------------------------------------
(* Error events (checked under Spec) *)

\* the step runs the 'error' handler of socket a of a relay that is not closed
ErrorHandled(a, a2) == ~R.closed /\ a.errPending /\ ~a2.errPending

ErrorsOf(m, side) == CountOf(m.connectionErrors, <<R.client_id, side>>)

\* C33 as claimed: the handler of a transport error, downstream or upstream,
\* emits one error event naming its side, which adds one to the error counter
\* of that side, and closes the relay.
C33_ErrorEventNamesSide ==
  [][ /\ ErrorHandled(R.client, R'.client) =>
           /\ ErrorsOf(met', "client") = ErrorsOf(met, "client") + 1
           /\ R'.closed
      /\ ErrorHandled(R.pool, R'.pool) =>
           /\ ErrorsOf(met', "pool") = ErrorsOf(met, "pool") + 1
           /\ R'.closed ]_vars

----------------------------------------------------------------------------
(* SpecPending: a relay that submits, is answered, perhaps twice, and is closed
   by its downstream peer, beside a relay that receives an answer with the
   same identifier *)

InitPending ==
  /\ now = 0
  /\ met = NewMetrics
  /\ \E requests \in {Submit1, Submit1 \o Submit1},
        responses \in {<<>>, Accepted1 \o Accepted1} :
       LET h1 == HandleConnection(NewServer(0, TRUE), NoConns, "10.0.0.1", 0,
                                  requests, responses, ServiceOptions.timeoutMs,
                                  ServiceOptions.idleTimeoutMs)
           h2 == HandleConnection(h1.srv, h1.conn, "10.0.0.2", 0, <<>>,
                                  Accepted1,
                                  ServiceOptions.timeoutMs,
                                  ServiceOptions.idleTimeoutMs)
       IN srv = h2.srv /\ conn = h2.conn

NextPending ==
  \/ ClientData(1, LineEnd(conn[1].client.feed))
  \/ PoolData(1, LineEnd(conn[1].pool.feed))
  \/ PoolConnect(1)
  \/ ClientFlush(1)
  \/ PoolFlush(1)
  \/ ClientDrain(1)
  \/ PoolDrain(1)
  \/ ClientEnd(1)
  \/ ClientCloseEvent(1)
  \/ PoolConnect(2)
  \/ PoolData(2, LineEnd(conn[2].pool.feed))

SpecPending == InitPending /\ [][NextPending]_vars

\* the events the step has put on the stream
NewEvents == SubSeq(srv'.events, Len(srv.events) + 1, Len(srv'.events))

\* the step has observed a response with the identifier and the connection of
\* the entry
Answered(key) ==
  \E i \in 1..Len(NewEvents) :
    /\ NewEvents[i].type = "stratum_response"
    /\ NewEvents[i].data.msg.id \notin {"none", "null"}
    /\ PendingKey(NewEvents[i]) = key

RECURSIVE Total(_)
Total(f) ==
  IF DOMAIN f = {} THEN 0
  ELSE LET k == CHOOSE x \in DOMAIN f : TRUE
       IN f[k] + Total(Remove(f, k))

\* C34: an entry of the pending requests is removed by the step that observes
\* a response with its identifier on its connection, and by no other step
\* (not by a response on another connection, nor by the closed event of its
\* connection); that step adds one latency observation, and a response that
\* matches no entry (a repeated one) adds none.
C34_PendingRemovedOnResponseOnly ==
  [][ /\ \A key \in DOMAIN met.pendingRequests :
           key \notin DOMAIN met'.pendingRequests <=> Answered(key)
      /\ Total(met'.requestResponseLatency) =
           Total(met.requestResponseLatency)
             + Cardinality({key \in DOMAIN met.pendingRequests : Answered(key)})
    ]_vars

\* relay 1 was answered twice after its first submit, with one observation;
\* it has submitted again and has been closed, and the entry is still there
C34_Witness ==
  /\ Cardinality(EventsOf(1, "stratum_response")) = 2
  /\ Total(met.requestResponseLatency) = 1
  /\ EventsOf(1, "connection_closed") # {}
  /\ <<1, "1">> \in DOMAIN met.pendingRequests

----------------------------------------------------------------------------
(* The throttle window's records (checked under SpecServer) *)

\* attempt i comes a window or more after every admitted attempt of its address
ClearOfAdmitted(i) ==
  \A j \in 1..(i - 1) :
    (A(j).ip = A(i).ip /\ A(j).outcome = "admitted")
      => A(i).t - A(j).t >= CONNECTION_THROTTLE_MS

\* the attempt handled in this step
Latest == srv'.attempts[Len(srv'.attempts)]

\* C35: the window of an address records admitted attempts of that address
\* only; an attempt that comes a window (5000 ms) or more after the last
\* admitted attempt of its address is not throttled, however many attempts
\* were rejected in between; handling an attempt changes the window of no
\* other address; and a rejected attempt adds no record to the window of its
\* own address (its check only drops the records that have expired).
C35_OnlyAdmittedRecorded ==
  /\ [](\A ip \in Addrs :
          \A n \in 1..Len(srv.recentConnections[ip]) :
            \E i \in 1..Len(srv.attempts) :
              /\ A(i).ip = ip /\ A(i).outcome = "admitted"
              /\ A(i).t = srv.recentConnections[ip][n])
  /\ [](\A i \in 1..Len(srv.attempts) :
          ClearOfAdmitted(i) => A(i).outcome # "throttled")
  /\ [][ Len(srv'.attempts) = Len(srv.attempts) + 1 =>
           /\ \A ip \in Addrs \ {Latest.ip} :
                srv'.recentConnections[ip] = srv.recentConnections[ip]
           /\ Latest.outcome # "admitted" =>
                srv'.recentConnections[Latest.ip]
                  = Filter(srv.recentConnections[Latest.ip], now, CONNECTION_THROTTLE_MS)
       ]_vars

\* an address was admitted, rejected within the window, and admitted again a
\* window after its first admission, whose record has left the window
C35_Witness ==
  \E i, j, k \in 1..Len(srv.attempts) :
    /\ i < j /\ j < k
    /\ A(i).ip = A(k).ip /\ A(j).ip = A(k).ip
    /\ A(i).outcome = "admitted" /\ A(j).outcome # "admitted"
    /\ A(k).outcome = "admitted"
    /\ A(k).t - A(i).t >= CONNECTION_THROTTLE_MS
    /\ srv.recentConnections[A(k).ip] = <<A(k).t>>

----------------------------------------------------------------------------
(* Byte totals: one observed relay whose two feeds arrive in chunks of any
   size and whose sockets fail or end at any point *)

InitBytes ==
  LET h == HandleConnection(NewServer(0, TRUE), NoConns, "10.0.0.1", 0,
                            StopFeed, StopFeed,
                            ServiceOptions.timeoutMs,
                            ServiceOptions.idleTimeoutMs)
  IN /\ now = 0
     /\ srv = h.srv
     /\ conn = h.conn
     /\ met = NewMetrics

NextBytes ==
  \/ \E k \in 1..MaxChunk : ClientData(1, k)
  \/ \E k \in 1..MaxChunk : PoolData(1, k)
  \/ PoolConnect(1)
  \/ ClientFlush(1)
  \/ PoolFlush(1)
  \/ ClientDrain(1)
  \/ PoolDrain(1)
  \/ ClientFail(1)
  \/ PoolFail(1)
  \/ ClientEnd(1)
  \/ PoolEnd(1)
  \/ ClientErrorEvent(1)
  \/ ClientCloseEvent(1)
  \/ PoolErrorEvent(1)
  \/ PoolCloseEvent(1)

SpecBytes == InitBytes /\ [][NextBytes]_vars

\* the sum of the payloads of the events of one type among the first n events
RECURSIVE BytesBefore(_, _)
BytesBefore(n, type) ==
  IF n = 0 THEN 0
  ELSE BytesBefore(n - 1, type)
         + (IF E[n].type = type THEN E[n].data.bytes ELSE 0)

\* C36: the totals a closure event carries are the sums of the payloads of the
\* bytes-sent and of the bytes-received events emitted before it, and no step
\* lowers a byte counter.
C36_ClosureTotalsAreSums ==
  /\ [](\A k \in 1..Len(E) :
          E[k].type = "connection_closed" =>
            /\ E[k].data.bytes_sent = BytesBefore(k - 1, "bytes_sent")
            /\ E[k].data.bytes_received = BytesBefore(k - 1, "bytes_received"))
  /\ [][ /\ R'.bytesSent >= R.bytesSent
         /\ R'.bytesReceived >= R.bytesReceived ]_vars

\* a closure whose sent total was built from two chunks and whose received
\* total is not zero
C36_Witness ==
  \E k \in 1..Len(E) :
    /\ E[k].type = "connection_closed"
    /\ Cardinality({j \in 1..(k - 1) : E[j].type = "bytes_sent"}) >= 2
    /\ E[k].data.bytes_sent >= 2
    /\ E[k].data.bytes_received >= 1

----------------------------------------------------------------------------
(* Chunks after the closure: a 'data' event that a socket had already read
   when close() destroyed it runs the relay's 'data' handler on a closed
   relay *)

LateClientData(c, k) ==
  /\ conn[c].live /\ conn[c].closed
  /\ k \in 1..Len(conn[c].client.feed)
  /\ LET f == conn[c].client.feed
         r == [conn[c] EXCEPT !.client.feed = SubSeq(f, k + 1, Len(f))]
     IN Deliver(c, OnClientData(r, SubSeq(f, 1, k), now))

LatePoolData(c, k) ==
  /\ conn[c].live /\ conn[c].closed
  /\ k \in 1..Len(conn[c].pool.feed)
  /\ LET f == conn[c].pool.feed
         r == [conn[c] EXCEPT !.pool.feed = SubSeq(f, k + 1, Len(f))]
     IN Deliver(c, OnPoolData(r, SubSeq(f, 1, k), now))

LateFeed == <<Tok("a"), Tok("a")>>

InitLate ==
  LET h == HandleConnection(NewServer(0, TRUE), NoConns, "10.0.0.1", 0,
                            LateFeed, LateFeed,
                            Options.timeoutMs, Options.idleTimeoutMs)
  IN /\ now = 0
     /\ srv = h.srv
     /\ conn = h.conn
     /\ met = NewMetrics

NextLate ==
  \/ ClientData(1, 1)
  \/ PoolData(1, 1)
  \/ PoolConnect(1)
  \/ ClientFlush(1)
  \/ PoolFlush(1)
  \/ ClientEnd(1)
  \/ PoolFail(1)
  \/ PoolErrorEvent(1)
  \/ ClientCloseEvent(1)
  \/ PoolCloseEvent(1)
  \/ IdleTimeout(1)
  \/ LateClientData(1, 1)
  \/ LatePoolData(1, 1)
  \/ Tick(1, MaxTime)

SpecLate == InitLate /\ [][NextLate]_vars

\* what the forwarding logic of a relay reads and writes: the counters, the
\* activity time, the idle timer, the two parsers and the worker's identity,
\* and what it has written to each socket
Forwarding(r) ==
  <<r.bytesSent, r.bytesReceived, r.lastActivityTime, r.idleTimerAt,
    r.parser, r.responseParser, r.workerName, r.client_id,
    r.client.writes, r.client.wbuf, r.pool.writes, r.pool.wbuf,
    r.client.paused, r.pool.paused>>

\* C37: once a relay is closed no step, a chunk arriving on either socket
\* included, changes its counters, activity time, idle timer, parsers, worker
\* identity or what was written to either socket, nor the events and the
\* metrics observed; and a closed relay has no idle timer armed.
C37_ClosedNeverForwards ==
  /\ [](R.closed => R.idleTimerAt = -1)
  /\ [][ R.closed =>
           /\ Forwarding(R') = Forwarding(R)
           /\ srv'.events = srv.events
           /\ met' = met ]_vars

\* after the closure, and later than the relay's last activity, each socket has
\* delivered a chunk that no counter holds
C37_Witness ==
  /\ R.closed
  /\ now > R.lastActivityTime
  /\ Len(R.client.feed) + R.bytesSent < TextLen(LateFeed)
  /\ Len(R.pool.feed) + R.bytesReceived < TextLen(LateFeed)

----------------------------------------------------------------------------
(* Two relays side by side: each receives a line that is not JSON, and each
   may meet a socket error of either side, a dial timeout or the idle expiry *)

Pair == {1, 2}

InitPair ==
  LET h1 == HandleConnection(NewServer(0, FALSE), NoConns, "10.0.0.1", 0,
                             Garbage, <<>>,
                             Options.timeoutMs, Options.idleTimeoutMs)
      h2 == HandleConnection(h1.srv, h1.conn, "10.0.0.2", 0,
                             Garbage, <<>>,
                             Options.timeoutMs, Options.idleTimeoutMs)
  IN /\ now = 0
     /\ srv = h2.srv
     /\ conn = h2.conn
     /\ met = NewMetrics

PairStep(c) ==
  \/ ClientData(c, LineEnd(conn[c].client.feed))
  \/ PoolConnect(c)
  \/ ClientFail(c)
  \/ PoolFail(c)
  \/ ClientErrorEvent(c)
  \/ PoolErrorEvent(c)
  \/ ClientCloseEvent(c)
  \/ PoolCloseEvent(c)
  \/ PoolTimeout(c)
  \/ IdleTimeout(c)

NextPair ==
  \/ \E c \in Pair : PairStep(c)
  \/ Tick(1, MaxTime)

SpecPair == InitPair /\ [][NextPair]_vars

\* C38: a step that closes a relay, or that changes a relay in any way
\* (a socket error of either class, the idle expiry, a line the parser cannot
\* read), changes nothing of the other relay, and the tracked set loses the
\* relay that closed and no other.
C38_FaultStaysOnItsRelay ==
  [][ \A c \in Pair :
        /\ conn'[c] # conn[c] =>
             \A d \in Pair \ {c} : conn'[d] = conn[d]
        /\ (conn'[c].closed /\ ~conn[c].closed) =>
             srv'.connections = srv.connections \ {c}
        /\ conn'[c].closed = conn[c].closed =>
             (c \in srv'.connections <=> c \in srv.connections)
    ]_vars

\* one relay has closed on a fault while the other, which has counted its
\* chunk and been warned by its parser, stays open and tracked
C38_Witness ==
  \E c \in Pair : \E d \in Pair \ {c} :
    /\ conn[c].closed /\ c \notin srv.connections
    /\ ~conn[d].closed /\ d \in srv.connections
    /\ conn[d].bytesSent > 0 /\ conn[d].parser.nonJsonWarned
    /\ conn[d].client.st = "open" /\ conn[d].pool.st = "open"
    /\ conn[d].idleTimerAt >= 0

----------------------------------------------------------------------------
(* Socket errors of every code, on two observed relays *)

InitCodes ==
  LET h1 == HandleConnection(NewServer(0, TRUE), NoConns, "10.0.0.1", 0,
                             <<>>, <<>>,
                             ServiceOptions.timeoutMs,
                             ServiceOptions.idleTimeoutMs)
      h2 == HandleConnection(h1.srv, h1.conn, "10.0.0.2", 0, <<>>, <<>>,
                             ServiceOptions.timeoutMs,
                             ServiceOptions.idleTimeoutMs)
  IN /\ now = 0
     /\ srv = h2.srv
     /\ conn = h2.conn
     /\ met = NewMetrics

CodesStep(c) ==
  \/ PoolConnect(c)
  \/ ClientFail(c)
  \/ PoolFail(c)
  \/ \E code \in AllErrorCodes : ClientErrorWith(c, code)
  \/ \E code \in AllErrorCodes : PoolErrorWith(c, code)
  \/ ClientCloseEvent(c)
  \/ PoolCloseEvent(c)

NextCodes == \E c \in Pair : CodesStep(c)

SpecCodes == InitCodes /\ [][NextCodes]_vars

\* the event without the error's code it carries
Uncoded(e) == [e EXCEPT !.data.code = ""]

\* two outcomes of an 'error' handler that differ in the logged level and in
\* the code the error event carries, and in nothing else
SameButLevel(ra, rb) ==
  /\ [ra EXCEPT !.logged = <<>>, !.out = <<>>]
       = [rb EXCEPT !.logged = <<>>, !.out = <<>>]
  /\ Len(ra.out) = Len(rb.out)
  /\ \A i \in 1..Len(ra.out) : Uncoded(ra.out[i]) = Uncoded(rb.out[i])
  /\ HandleEvents(met, ra.out) = HandleEvents(met, rb.out)

\* C39: whenever a socket of a relay owes its 'error' event, the handler run
\* with any two codes, expected or not, closes the relay and leaves the same
\* relay state, the same events (but for the code the error event carries) and
\* the same metrics; the code's class decides the level of the log entry:
\* debug (client) or info (pool) for the five expected codes, error otherwise.
C39_ClassChangesLevelOnly ==
  \A c \in Pair : \A a, b \in AllErrorCodes :
    /\ conn[c].client.errPending =>
         LET ra == OnClientError(conn[c], a, now)
             rb == OnClientError(conn[c], b, now)
         IN /\ SameButLevel(ra, rb) /\ ra.closed
            /\ ra.logged = <<(IF a \in EXPECTED_ERROR_CODES THEN "debug" ELSE "error")>>
    /\ conn[c].pool.errPending =>
         LET ra == OnPoolError(conn[c], a, now)
             rb == OnPoolError(conn[c], b, now)
         IN /\ SameButLevel(ra, rb) /\ ra.closed
            /\ ra.logged = <<(IF a \in EXPECTED_ERROR_CODES THEN "info" ELSE "error")>>

\* the event types of relay c, in order
RECURSIVE TypesOf(_, _)
TypesOf(es, c) ==
  IF es = <<>> THEN <<>>
  ELSE (IF es[1].connection_id = c THEN <<es[1].type>> ELSE <<>>)
         \o TypesOf(Tail(es), c)

\* the pool sockets of both relays failed while connecting, one with an
\* expected code and one with another: both relays are closed and forgotten
\* after the same two events, and the log holds the two levels
C39_Witness ==
  /\ conn[1].closed /\ conn[2].closed /\ srv.connections = {}
  /\ srv.log = <<"info", "error">>
  /\ TypesOf(E, 1) = <<"error", "connection_closed">>
  /\ TypesOf(E, 2) = TypesOf(E, 1)
  /\ \E i, j \in 1..Len(E) :
       /\ E[i].type = "error" /\ E[i].data.code = "ECONNREFUSED"
       /\ E[j].type = "error" /\ E[j].data.code = "EACCES"

====
